---- MODULE Spec2Model ----
(***************************************************************************)
(* Model of the company table view-model of company-summary:              *)
(* src/company-summary/src/components/CompanyTable.tsx.                   *)
(*                                                                         *)
(* Text is modelled as a sequence of one-character strings, so that       *)
(* toLowerCase and includes are computed character by character.          *)
(* A Company is a function from its field keys to a tagged value          *)
(* (a string, or an array of strings for the *_citations fields).         *)
(* A JavaScript object used as a map (cellEdits, verifications) is a      *)
(* function with a finite domain; the empty object is the empty function. *)
(***************************************************************************)
EXTENDS Integers, Sequences, FiniteSets, TLC

----------------------------------------------------------------------------
(* Bounds of the model                                                     *)

\* number of data rows of the larger CSV file that can be loaded
NumRecords == 3
\* number of distinct filter texts a user can type
NumFilterTexts == 2
\* largest number of overrides, and of verification flags, held at once
MaxEntries == 2
\* number of leading columns that take part in drags
NumDragColumns == 3

----------------------------------------------------------------------------
(* Strings                                                                 *)

Uppers == <<"A","B","C","D","E","F","G","H","I","J","K","L","M",
            "N","O","P","Q","R","S","T","U","V","W","X","Y","Z">>
Lowers == <<"a","b","c","d","e","f","g","h","i","j","k","l","m",
            "n","o","p","q","r","s","t","u","v","w","x","y","z">>

Digits == <<"0","1","2","3","4","5","6","7","8","9">>
\* the characters texts are written with
Chars ==
  { Uppers[i] : i \in 1..Len(Uppers) } \cup { Lowers[i] : i \in 1..Len(Lowers) }
    \cup { Digits[i] : i \in 1..Len(Digits) } \cup {" ", ",", "_", "-", "\""}

\* the lower-case form of every character
LowerMap ==
  [ch \in Chars |->
     IF \E i \in 1..Len(Uppers) : Uppers[i] = ch
       THEN Lowers[CHOOSE i \in 1..Len(Uppers) : Uppers[i] = ch]
       ELSE ch]

\* String.prototype.toLowerCase
toLowerCase(s) == [i \in 1..Len(s) |-> LowerMap[s[i]]]

\* String.prototype.includes
includes(s, sub) ==
  \E i \in 0..(Len(s) - Len(sub)) : SubSeq(s, i + 1, i + Len(sub)) = sub

\* the elements of a finite set in a fixed order
RECURSIVE SeqOfSet(_)
SeqOfSet(S) ==
  IF S = {} THEN <<>>
  ELSE LET x == CHOOSE y \in S : TRUE
       IN <<x>> \o SeqOfSet(S \ {x})

\* the empty string ''
Empty == <<>>

\* a value of a Company field: a string or an array of strings
Str(s) == [isArray |-> FALSE, str |-> s, items |-> <<>>]
Arr(xs) == [isArray |-> TRUE, str |-> <<>>, items |-> xs]

----------------------------------------------------------------------------
(* Company records                                                         *)

\* the *_citations fields of Company
CitationKeys ==
  {"investment_grade_citations", "est_annual_revenue_citations",
   "est_yoy_growth_citations", "pe_backed_citations",
   "can_accommodate_allocation_citations", "good_reputation_citations"}

OshaKeys ==
  {"annual_average_employees_2020", "annual_average_employees_2021",
   "annual_average_employees_2022", "annual_average_employees_2023",
   "annual_average_employees_2024", "total_hours_worked_2020",
   "total_hours_worked_2021", "total_hours_worked_2022",
   "total_hours_worked_2023", "total_hours_worked_2024"}

\* the keys of interface Company (the keys of the filters state)
CompanyKeys ==
  {"company_name", "state", "investment_grade", "investment_grade_summary",
   "est_annual_revenue", "est_yoy_growth", "pe_backed",
   "can_accommodate_allocation", "good_reputation", "website",
   "contact_info", "last_interaction_date", "last_interaction_id"}
  \cup CitationKeys \cup OshaKeys

\* the draft texts a user saves: a new text and the empty text
EditTexts == { <<"x">>, Empty }

\* the texts a user types into a filter input ('' clears the filter)
FilterTexts ==
  LET FilterPool == << <<"A","B">>, <<"b","A">>, <<"t","x">>, <<"a">>, <<"1">> >>
  IN { Empty } \cup { FilterPool[i] : i \in 1..NumFilterTexts }

\* the Company keys a filter text is typed for: a string and a list
FilterKeys == {"company_name", "est_annual_revenue_citations"}

\* the metric columns whose cells are edited and verified
CellKeys == {"est_annual_revenue", "last_interaction_date"}

\* the columns whose header is clicked to sort
SortKeys == {"company_name", "est_annual_revenue"}

----------------------------------------------------------------------------
(* Column configuration                                                    *)

Col(key, type, order) ==
  [key |-> key, type |-> type, visible |-> TRUE, order |-> order]

\* const columnConfigs as the module is evaluated (label and group, which
\* only style the header, are left out)
DefaultColumnConfigs ==
  << Col("company_name", "definition", 0),
     Col("state", "definition", 1),
     Col("investment_grade", "metric", 2),
     Col("est_annual_revenue", "metric", 3),
     Col("est_yoy_growth", "metric", 4),
     Col("pe_backed", "metric", 5),
     Col("can_accommodate_allocation", "metric", 6),
     Col("last_interaction_date", "metric", 7),
     Col("last_interaction_id", "metric", 8),
     Col("annual_average_employees_2020", "metric", 9),
     Col("annual_average_employees_2021", "metric", 10),
     Col("annual_average_employees_2022", "metric", 11),
     Col("annual_average_employees_2023", "metric", 12),
     Col("annual_average_employees_2024", "metric", 13),
     Col("total_hours_worked_2020", "metric", 14),
     Col("total_hours_worked_2021", "metric", 15),
     Col("total_hours_worked_2022", "metric", 16),
     Col("total_hours_worked_2023", "metric", 17),
     Col("total_hours_worked_2024", "metric", 18) >>

ColumnKeys == { DefaultColumnConfigs[i].key : i \in 1..Len(DefaultColumnConfigs) }

\* the columns the model drags, and the columns whose checkbox it uses
DragKeys == { DefaultColumnConfigs[i].key : i \in 1..NumDragColumns }
ToggleKeys == {"company_name", "state"}

\* Array.prototype.findIndex(col => col.key === key), 1-based; 0 for -1
findIndex(cols, key) ==
  IF \E i \in 1..Len(cols) : cols[i].key = key
    THEN CHOOSE i \in 1..Len(cols) :
           cols[i].key = key /\ \A j \in 1..(i - 1) : cols[j].key # key
    ELSE 0

----------------------------------------------------------------------------
(* Objects used as maps, and JSON text                                     *)

\* the object {}
EmptyMap == <<>>

\* { ...m, [k]: v }
MapPut(m, k, v) == [x \in (DOMAIN m) \cup {k} |-> IF x = k THEN v ELSE m[x]]

\* delete m[k]
MapDelete(m, k) == [x \in (DOMAIN m) \ {k} |-> m[x]]

\* JSON text is modelled by its syntax tree: a tagged tuple per value
JNull == <<"null">>
JStr(s) == <<"str", s>>
JBool(b) == <<"lit", IF b THEN "true" ELSE "false">>
JNum(n) == <<"num", n>>
JArr(xs) == <<"arr", xs>>
\* an object whose values are JSON already, written as the list of its
\* "key": value members
JObj(members) ==
  LET keys == SeqOfSet(DOMAIN members)
  IN <<"obj", [i \in 1..Len(keys) |-> <<keys[i], members[keys[i]]>>]>>

\* JSON.parse of an object, its values left as JSON: a member that occurs
\* twice keeps its last value
ParseObj(j) ==
  LET members == j[2]
      last(k) == CHOOSE i \in 1..Len(members) :
                   /\ members[i][1] = k
                   /\ \A n \in (i + 1)..Len(members) : members[n][1] # k
  IN [k \in { members[i][1] : i \in 1..Len(members) } |-> members[last(k)][2]]
ParseStr(j) == j[2]
ParseBool(j) == j[2] = "true"

\* JSON.stringify(cellEdits) and JSON.parse of it
StringifyEdits(edits) ==
  JObj([c \in DOMAIN edits |-> JObj([k \in DOMAIN edits[c] |-> JStr(edits[c][k])])])
ParseEdits(j) ==
  LET members == ParseObj(j)
  IN [c \in DOMAIN members |->
        LET inner == ParseObj(members[c])
        IN [k \in DOMAIN inner |-> ParseStr(inner[k])]]

\* JSON.stringify(verifications) and JSON.parse of it
StringifyVerifications(v) ==
  JObj([c \in DOMAIN v |-> JObj([k \in DOMAIN v[c] |-> JBool(v[c][k])])])
ParseVerifications(j) ==
  LET members == ParseObj(j)
  IN [c \in DOMAIN members |->
        LET inner == ParseObj(members[c])
        IN [k \in DOMAIN inner |-> ParseBool(inner[k])]]

\* JSON.stringify(columnSettings) and JSON.parse of it
StringifyColumns(cols) ==
  JArr([i \in 1..Len(cols) |->
          <<"obj", << <<"key", JStr(cols[i].key)>>, <<"type", JStr(cols[i].type)>>,
                      <<"visible", JBool(cols[i].visible)>>,
                      <<"order", JNum(cols[i].order)>> >> >>])
ParseColumns(j) ==
  [i \in 1..Len(j[2]) |->
     LET col == j[2][i][2]
     IN [key |-> col[1][2][2], type |-> col[2][2][2],
         visible |-> ParseBool(col[3][2]), order |-> col[4][2][2]]]

\* the keys of window.localStorage the table and App use; the table's
\* items hold JSON, App's items hold a text, written <<"text", t>>
StorageKeys == {"companyTableColumns", "companyTableVerifications",
                "companyTableEdits", "isAuthenticated", "username"}
\* the storage of a browser profile that has never run the application
EmptyStorage == [k \in StorageKeys |-> JNull]

----------------------------------------------------------------------------
(* The rows of data.csv and their transformation                           *)

\* a cell of a parsed CSV row is its text, or for a cell that holds JSON the
\* syntax tree of that text; a column the row does not have is undefined
Undefined == <<"undefined">>
IsJsonTree(cell) ==
  cell # <<>> /\ cell[1] \in {"null", "str", "lit", "num", "arr", "obj"}
\* what JSON.parse gives in place of a value when it throws a SyntaxError
Thrown == <<"throws">>

IsDigit(ch) == \E i \in 1..Len(Digits) : Digits[i] = ch

\* the number a run of digits denotes
RECURSIVE NumberOf(_)
NumberOf(text) ==
  IF text = <<>> THEN 0
  ELSE 10 * NumberOf(SubSeq(text, 1, Len(text) - 1))
         + (CHOOSE i \in 1..Len(Digits) : Digits[i] = text[Len(text)]) - 1

\* Number.prototype.toString of a natural number
RECURSIVE NumberToString(_)
NumberToString(n) ==
  IF n < 10 THEN <<Digits[n + 1]>>
  ELSE NumberToString(n \div 10) \o <<Digits[(n % 10) + 1]>>

\* JSON.parse of a cell: the tree of a cell that holds JSON; of a plain text
\* the value it denotes when it is a number or a literal; Thrown otherwise,
\* and for undefined
JSONparse(cell) ==
  IF cell = Undefined THEN Thrown
  ELSE IF IsJsonTree(cell) THEN cell
  ELSE IF cell = <<"t","r","u","e">> THEN JBool(TRUE)
  ELSE IF cell = <<"f","a","l","s","e">> THEN JBool(FALSE)
  ELSE IF cell = <<"n","u","l","l">> THEN JNull
  ELSE IF /\ cell # <<>>
          /\ \A i \in 1..Len(cell) : IsDigit(cell[i])
          /\ Len(cell) > 1 => cell[1] # "0"
    THEN JNum(NumberOf(cell))
  ELSE Thrown

\* a value is truthy: not undefined, not null, not '', not false, not 0
Truthy(cell) ==
  /\ cell # Undefined
  /\ cell # Empty
  /\ cell # JNull
  /\ cell # JBool(FALSE)
  /\ cell # JNum(0)
  /\ cell # JStr(Empty)

Unknown == <<"U","n","k","n","o","w","n">>

\* one element of the metrics array
Metric(name, metric, citations) ==
  JObj([m \in {"metric_name", "metric", "citations"} |->
          CASE m = "metric_name" -> JStr(name)
            [] m = "metric" -> metric
            [] OTHER -> JArr([i \in 1..Len(citations) |-> JStr(citations[i])])])

\* a member of a parsed object, undefined when it has none
Member(object, name) == IF name \in DOMAIN object THEN object[name] ELSE Undefined

\* metricMap.get(name) giving the first element of metrics with that
\* metric_name in place of the last
metricMapGetFirst(metrics, name) ==
  LET named == { i \in 1..Len(metrics[2]) :
                   Member(ParseObj(metrics[2][i]), "metric_name") = JStr(name) }
  IN IF named = {} THEN Undefined
     ELSE ParseObj(metrics[2][CHOOSE i \in named : \A j \in named : i <= j])

\* metricMap.get(name): the last element of metrics with that metric_name,
\* parsed; undefined when there is none
metricMapGet(metrics, name) ==
  LET named == { i \in 1..Len(metrics[2]) :
                   Member(ParseObj(metrics[2][i]), "metric_name") = JStr(name) }
  IN IF named = {} THEN Undefined
     ELSE ParseObj(metrics[2][CHOOSE i \in named : \A j \in named : j <= i])

\* entry?.metric?.toString() || 'Unknown'
MetricToString(entry) ==
  LET metric == IF entry = Undefined THEN Undefined ELSE Member(entry, "metric")
      text == CASE metric = Undefined \/ metric = JNull -> Empty
                [] metric[1] = "str" -> metric[2]
                [] metric[1] = "num" -> NumberToString(metric[2])
                [] metric[1] = "lit" ->
                     IF metric[2] = "true" THEN <<"t","r","u","e">>
                                           ELSE <<"f","a","l","s","e">>
                [] OTHER -> Empty
  IN IF text = Empty THEN Unknown ELSE text

\* entry?.metric === true ? 'Yes' : 'No'
MetricYesNo(entry) ==
  IF entry # Undefined /\ Member(entry, "metric") = JBool(TRUE) THEN <<"Y","e","s">> ELSE <<"N","o">>

\* the strings of a JSON array of strings
StringItems(j) == [i \in 1..Len(j[2]) |-> ParseStr(j[2][i])]

\* entry?.citations || []
MetricCitations(entry) ==
  LET citations == IF entry = Undefined THEN Undefined ELSE Member(entry, "citations")
  IN IF Truthy(citations) THEN StringItems(citations) ELSE <<>>

\* the three values the try block around JSON.parse(csvRow.investment_grade)
\* leaves: the catch block runs when the text is not JSON, and when it is
\* the JSON null, whose members cannot be read
investmentGrade(cell) ==
  LET gradeData == JSONparse(cell)
  IN IF gradeData = Thrown \/ gradeData = JNull
       THEN [grade |-> IF cell = Undefined THEN Empty ELSE cell,
             summary |-> Empty, citations |-> <<>>]
     ELSE IF gradeData[1] # "obj"
       THEN [grade |-> Unknown, summary |-> Empty, citations |-> <<>>]
     ELSE LET object == ParseObj(gradeData)
              grade == Member(object, "grade")
              summary == Member(object, "summary")
              citations == Member(object, "citations")
          IN [grade |-> IF Truthy(grade) THEN ParseStr(grade) ELSE Unknown,
              summary |-> IF Truthy(summary) THEN ParseStr(summary) ELSE Empty,
              citations |-> IF Truthy(citations) THEN StringItems(citations) ELSE <<>>]

\* the time zones of the browser: at or east of Greenwich, and west of it
TimeZones == {"east", "west"}

DaysInMonth(year, month) ==
  IF month = 2
    THEN (IF (year % 4 = 0 /\ year % 100 # 0) \/ year % 400 = 0 THEN 29 ELSE 28)
  ELSE IF month \in {4, 6, 9, 11} THEN 30 ELSE 31

\* new Date(text) gives a valid date for a text of the form YYYY-MM-DD,
\* which is read as midnight UTC of that day; any other text gives an
\* invalid date (the texts of the model have this form or are no date)
IsDateText(text) ==
  /\ Len(text) = 10
  /\ text[5] = "-" /\ text[8] = "-"
  /\ \A i \in {1, 2, 3, 4, 6, 7, 9, 10} : IsDigit(text[i])
  /\ NumberOf(SubSeq(text, 6, 7)) \in 1..12
  /\ NumberOf(SubSeq(text, 9, 10)) \in
       1..DaysInMonth(NumberOf(SubSeq(text, 1, 4)), NumberOf(SubSeq(text, 6, 7)))

DateOf(text) ==
  [year |-> NumberOf(SubSeq(text, 1, 4)),
   month |-> NumberOf(SubSeq(text, 6, 7)),
   day |-> NumberOf(SubSeq(text, 9, 10))]

\* the local calendar day of midnight UTC of a day: the day itself at or
\* east of Greenwich, the day before it west of Greenwich
LocalDay(date, zone) ==
  IF zone # "west" THEN date
  ELSE IF date.day > 1 THEN [date EXCEPT !.day = date.day - 1]
  ELSE IF date.month > 1
    THEN [year |-> date.year, month |-> date.month - 1,
          day |-> DaysInMonth(date.year, date.month - 1)]
  ELSE [year |-> date.year - 1, month |-> 12, day |-> 31]

\* date.toLocaleDateString('en-US', { year: 'numeric', month: 'short',
\* day: 'numeric' }) of a valid date
ShortDate(date) ==
  LET MonthNames ==
        << <<"J","a","n">>, <<"F","e","b">>, <<"M","a","r">>, <<"A","p","r">>,
           <<"M","a","y">>, <<"J","u","n">>, <<"J","u","l">>, <<"A","u","g">>,
           <<"S","e","p">>, <<"O","c","t">>, <<"N","o","v">>, <<"D","e","c">> >>
  IN MonthNames[date.month] \o <<" ">> \o NumberToString(date.day) \o <<",", " ">>
       \o NumberToString(date.year)

\* the immediately invoked function of last_interaction_date: new Date
\* does not throw for a text it cannot read, it gives an invalid date, and
\* toLocaleDateString of an invalid date is 'Invalid Date'
lastInteractionDate(text, zone) ==
  IF IsDateText(text) THEN ShortDate(LocalDay(DateOf(text), zone)) 
  ELSE <<"I","n","v","a","l","i","d"," ","D","a","t","e">>

\* text.replace(/"/g, '').replace(/,/g, ', ')
RECURSIVE lastInteractionId(_)
lastInteractionId(text) ==
  IF text = <<>> THEN <<>>
  ELSE IF Head(text) = "\"" THEN lastInteractionId(Tail(text))
  ELSE IF Head(text) = "," THEN <<",", " ">> \o lastInteractionId(Tail(text))
  ELSE <<Head(text)>> \o lastInteractionId(Tail(text))

\* transformCSVToCompany throws: JSON.parse(csvRow.metrics) throws for a
\* text that is not JSON and for undefined, and metrics.forEach throws when
\* the JSON is not an array
TransformThrows(csvRow) ==
  LET metrics == JSONparse(csvRow["metrics"])
  IN metrics = Thrown \/ metrics[1] # "arr"

\* transformCSVToCompany of a row for which it does not throw
transformCSVToCompany(csvRow, zone) ==
  LET metrics == JSONparse(csvRow["metrics"])
      grade == investmentGrade(csvRow["investment_grade"])
  IN [k \in CompanyKeys |->
        CASE k = "company_name" -> Str(csvRow["company_name"])
          [] k = "state" -> Str(csvRow["state"])
          [] k = "investment_grade" -> Str(grade.grade)
          [] k = "investment_grade_summary" -> Str(grade.summary)
          [] k = "investment_grade_citations" -> Arr(grade.citations)
          [] k = "est_annual_revenue" ->
               Str(MetricToString(metricMapGet(metrics, "est_annual_revenue")))
          [] k = "est_annual_revenue_citations" ->
               Arr(MetricCitations(metricMapGet(metrics, "est_annual_revenue")))
          [] k = "est_yoy_growth" ->
               Str(MetricToString(metricMapGet(metrics, "est_yoy_growth")))
          [] k = "est_yoy_growth_citations" ->
               Arr(MetricCitations(metricMapGet(metrics, "est_yoy_growth")))
          [] k = "pe_backed" -> Str(MetricYesNo(metricMapGet(metrics, "pe_backed")))
          [] k = "pe_backed_citations" ->
               Arr(MetricCitations(metricMapGet(metrics, "pe_backed")))
          [] k = "can_accommodate_allocation" ->
               Str(MetricYesNo(metricMapGet(metrics, "can_accommodate_allocation")))
          [] k = "can_accommodate_allocation_citations" ->
               Arr(MetricCitations(metricMapGet(metrics, "can_accommodate_allocation")))
          [] k = "good_reputation" ->
               Str(MetricToString(metricMapGet(metrics, "reputation")))
          [] k = "good_reputation_citations" ->
               Arr(MetricCitations(metricMapGet(metrics, "reputation")))
          [] k = "last_interaction_date" ->
               Str(IF Truthy(csvRow[k]) THEN lastInteractionDate(csvRow[k], zone)
                   ELSE Empty)
          [] k = "last_interaction_id" ->
               Str(IF Truthy(csvRow[k]) THEN lastInteractionId(csvRow[k]) ELSE Empty)
          [] OTHER -> Str(IF Truthy(csvRow[k]) THEN csvRow[k] ELSE Empty)]

\* a row of data.csv with the given cells; its other columns are empty
CsvRow(name, st, grade, metrics, date, hours) ==
  [c \in {"company_name", "state", "investment_grade", "metrics", "website",
          "contact_info", "last_interaction_date", "last_interaction_id"}
           \cup OshaKeys |->
     CASE c = "company_name" -> name
       [] c = "state" -> st
       [] c = "investment_grade" -> grade
       [] c = "metrics" -> metrics
       [] c = "last_interaction_date" -> date
       [] c = "total_hours_worked_2024" -> hours
       [] OTHER -> Empty]

\* one element of the contact_info array
Contact(position, first, last, email) ==
  JObj([m \in {"position", "first_name", "last_name", "email"} |->
          JStr(CASE m = "position" -> position
                 [] m = "first_name" -> first
                 [] m = "last_name" -> last
                 [] OTHER -> email)])

\* the metrics cell of a row that reports its revenue only
RevenueOnly(revenue, citations) ==
  JArr(<<Metric("est_annual_revenue", JStr(revenue), citations)>>)

\* the rows of the files the table is used with; rows can share a company
\* name (company_name is not unique in a CSV file)
CsvPool ==
  << CsvRow(<<"b","A">>, <<"T","X">>, <<"B">>,
            RevenueOnly(<<"2">>, << <<"a","B">> >>), <<"b">>, <<"1">>),
     [CsvRow(<<"A","b">>, <<"C","A">>, <<"A">>,
             RevenueOnly(<<"1">>, << <<"b">>, <<"B","a">> >>), Empty, <<"2">>)
        EXCEPT !["contact_info"] =
          JArr(<< Contact(<<"V","i","c","e"," "," ","C","h","a","i","r">>,
                          <<"A","l">>, <<"B","o">>, <<"a","b">>),
                  Contact(<<"v","i","c","e"," ","c","h","a","i","r">>,
                          <<"C","y">>, Empty, Empty),
                  Contact(Empty, Empty, Empty, <<"d","e">>) >>)],
     CsvRow(<<"b","A">>, <<"N","Y">>, <<"A">>,
            RevenueOnly(<<"3">>, << <<"A">> >>), <<"a">>, <<"1">>),
     CsvRow(<<"A","b">>, <<"T","X">>, <<"b">>,
            RevenueOnly(<<"1">>, <<>>), <<"a">>, Empty),
     CsvRow(<<"B">>, <<"C","A">>, <<"a">>,
            RevenueOnly(Empty, << <<"a","b">> >>), <<"B">>, <<"2">>) >>

\* the records of those rows
RecordPool == [i \in 1..Len(CsvPool) |-> transformCSVToCompany(CsvPool[i], "east")]

\* results.data of Papa.parse for the files the model loads: the two
\* tables, a body without data rows, and files with further rows
CsvFiles ==
  LET \* a row whose metrics cell is not JSON, and one without a metrics column
      RowMetricsNotJson ==
        CsvRow(<<"C">>, <<"N","Y">>, <<"A">>, <<"n","o","t"," ","j","s","o","n">>,
               Empty, <<"1">>)
      RowWithoutMetrics ==
        [CsvRow(<<"D">>, <<"T","X">>, <<"A">>, Empty, Empty, <<"1">>)
           EXCEPT !["metrics"] = Undefined]
      \* a row with every metric the transformation looks up, a metric named
      \* good_reputation and one it has no field for; its grade cell is JSON
      RowEveryMetric ==
        CsvRow(<<"E">>, <<"C","A">>,
               JObj([m \in {"grade", "summary", "citations"} |->
                       CASE m = "grade" -> JStr(<<"A">>)
                         [] m = "summary" -> JStr(<<"o","k">>)
                         [] OTHER -> JArr(<< JStr(<<"g">>) >>)]),
               JArr(<< Metric("est_annual_revenue", JNum(12), << <<"r">> >>),
                       Metric("est_yoy_growth", JStr(<<"5">>), << <<"y">> >>),
                       Metric("pe_backed", JBool(TRUE), << <<"p">> >>),
                       Metric("can_accommodate_allocation", JBool(FALSE), << <<"c">> >>),
                       Metric("reputation", JStr(<<"g","o","o","d">>), << <<"u">> >>),
                       Metric("good_reputation", JStr(<<"b","a","d">>), << <<"v">> >>),
                       Metric("headcount", JNum(7), << <<"h">> >>) >>),
               <<"2","0","2","4","-","0","1","-","0","5">>, <<"1">>)
      \* a row whose metrics array is empty, dated the first day of a month
      RowNoMetric ==
        CsvRow(<<"F">>, <<"N","Y">>, <<"B">>, JArr(<<>>),
               <<"2","0","2","4","-","0","3","-","0","1">>, <<"2">>)
      \* a row with only a metric the transformation has no field for
      RowForeignMetric ==
        CsvRow(<<"G">>, <<"T","X">>, <<"B">>,
               JArr(<< Metric("headcount", JNum(7), << <<"h">> >>) >>), Empty, <<"2">>)
      \* a row whose grade cell is a JSON object with an empty grade, and
      \* whose metrics array names the revenue twice and has an empty growth
      RowEmptyValues ==
        CsvRow(<<"H">>, <<"C","A">>,
               JObj([m \in {"grade", "summary", "citations"} |->
                       CASE m = "grade" -> JStr(Empty)
                         [] m = "summary" -> JStr(<<"o","k">>)
                         [] OTHER -> JArr(<< JStr(<<"g">>) >>)]),
               JArr(<< Metric("est_annual_revenue", JStr(<<"1">>), << <<"r">> >>),
                       Metric("est_annual_revenue", JStr(<<"2">>), << <<"s">> >>),
                       Metric("est_yoy_growth", JStr(Empty), << <<"y">> >>) >>),
               Empty, <<"1">>)
      \* rows whose grade cell is a bare text: a letter, a digit, and the
      \* words true and null
      RowBareGrade(name, grade) ==
        CsvRow(name, <<"N","Y">>, grade, JArr(<<>>), Empty, <<"1">>)
      \* a row whose grade cell is a JSON object without a grade
      RowGradeless ==
        CsvRow(<<"M">>, <<"T","X">>,
               JObj([m \in {"summary", "citations"} |->
                       IF m = "summary" THEN JStr(<<"o","k">>) ELSE JArr(<<>>)]),
               JArr(<<>>), Empty, <<"1">>)
  IN [ one_row |-> SubSeq(CsvPool, 1, 1),
       grades |-> << RowEmptyValues, RowBareGrade(<<"I">>, <<"C">>),
                     RowBareGrade(<<"J">>, <<"1">>),
                     RowBareGrade(<<"K">>, <<"t","r","u","e">>),
                     RowBareGrade(<<"L">>, <<"n","u","l","l">>), RowGradeless >>,
       table |-> SubSeq(CsvPool, 1, NumRecords),
       no_rows |-> <<>>,
       metrics_not_json |-> <<CsvPool[1], RowMetricsNotJson, CsvPool[2]>>,
       metrics_missing |-> <<RowWithoutMetrics>>,
       every_metric |-> <<RowEveryMetric, CsvPool[2]>>,
       no_metric |-> <<RowNoMetric, RowForeignMetric>> ]

\* results.data.map(transformCSVToCompany) throws
AnyRowThrows(rows) == \E i \in 1..Len(rows) : TransformThrows(rows[i])

\* results.data.map(transformCSVToCompany) when it does not throw
TransformAll(rows, zone) ==
  [i \in 1..Len(rows) |-> transformCSVToCompany(rows[i], zone)]

----------------------------------------------------------------------------
(* Filter and sort                                                         *)

\* the filter callback without toLowerCase on the filter text
FilterMatchesCaseOfFilterKept(value, filterValue) ==
  IF value.isArray
    THEN \E i \in 1..Len(value.items) :
           includes(toLowerCase(value.items[i]), filterValue)
    ELSE includes(toLowerCase(value.str), filterValue)

\* the filter callback of filteredAndSortedCompanies for one key
FilterMatches(value, filterValue) ==
  IF value.isArray
    THEN \E i \in 1..Len(value.items) :
           includes(toLowerCase(value.items[i]), toLowerCase(filterValue))
    ELSE includes(toLowerCase(value.str), toLowerCase(filterValue))

\* Object.entries(filters).forEach: one filter pass per key with a text
RECURSIVE ApplyFilters(_, _, _)
ApplyFilters(result, filterMap, keys) ==
  IF keys = <<>> THEN result
  ELSE LET key == Head(keys)
           filterValue == filterMap[key]
           Keep(company) == FilterMatches(company[key], filterValue)
       IN ApplyFilters(IF filterValue # Empty THEN SelectSeq(result, Keep)
                                              ELSE result,
                       filterMap, Tail(keys))

\* Array.prototype.join
RECURSIVE Join(_, _)
Join(items, sep) ==
  IF items = <<>> THEN Empty
  ELSE IF Len(items) = 1 THEN items[1]
  ELSE items[1] \o sep \o Join(Tail(items), sep)

\* the text the comparator compares for a field value
SortText(value) == IF value.isArray THEN Join(value.items, <<" ">>) ELSE value.str

\* the primary weight of every character: its letter without its case, in
\* the order of the collation: blank, digits, letters
PrimaryWeights ==
  LET CollationOrder == <<" ">> \o Digits \o Lowers
  IN [ch \in Chars |->
        IF \E i \in 1..Len(CollationOrder) : CollationOrder[i] = LowerMap[ch]
          THEN CHOOSE i \in 1..Len(CollationOrder) : CollationOrder[i] = LowerMap[ch]
          ELSE 0]
\* at equal letters the lower-case form sorts first
CaseWeight(ch) == IF LowerMap[ch] = ch THEN 0 ELSE 1

\* the order of two sequences of weights: -1, 0 or 1
RECURSIVE CompareWeights(_, _)
CompareWeights(a, b) ==
  IF a = <<>> /\ b = <<>> THEN 0
  ELSE IF a = <<>> THEN -1
  ELSE IF b = <<>> THEN 1
  ELSE IF Head(a) < Head(b) THEN -1
  ELSE IF Head(a) > Head(b) THEN 1
  ELSE CompareWeights(Tail(a), Tail(b))

\* aStr.localeCompare(bStr, undefined, { numeric: true }) for texts whose
\* digit runs have one digit: letters compare without case first, and case
\* decides between texts that are otherwise equal
localeCompare(a, b) ==
  LET primary == CompareWeights([i \in 1..Len(a) |-> PrimaryWeights[a[i]]],
                                [i \in 1..Len(b) |-> PrimaryWeights[b[i]]])
  IN IF primary # 0 THEN primary
     ELSE CompareWeights([i \in 1..Len(a) |-> CaseWeight(a[i])],
                         [i \in 1..Len(b) |-> CaseWeight(b[i])])

\* the comparator without the reversal for the direction 'desc'
SortComparatorAscendingOnly(a, b, status) ==
  localeCompare(SortText(a[status.columnAccessor]), SortText(b[status.columnAccessor]))

\* the comparator handed to result.sort
SortComparator(a, b, status) ==
  LET comparison == localeCompare(SortText(a[status.columnAccessor]),
                                  SortText(b[status.columnAccessor]))
  IN IF status.direction = "asc" THEN comparison ELSE 0 - comparison

\* Array.prototype.sort, which is stable: x goes behind every element that
\* does not compare greater than it
InsertSorted(sorted, x, status) ==
  LET n == Cardinality({ i \in 1..Len(sorted) :
                          \A j \in 1..i : SortComparator(sorted[j], x, status) <= 0 })
  IN SubSeq(sorted, 1, n) \o <<x>> \o SubSeq(sorted, n + 1, Len(sorted))

RECURSIVE SortCompanies(_, _)
SortCompanies(list, status) ==
  IF list = <<>> THEN <<>>
  ELSE InsertSorted(SortCompanies(SubSeq(list, 1, Len(list) - 1), status),
                    list[Len(list)], status)

\* the keys of the filters object, in the order Object.entries lists them
FilterEntryKeys == SeqOfSet(CompanyKeys)

\* the useMemo value filteredAndSortedCompanies
filteredAndSortedCompanies(companyList, filterMap, status) ==
  SortCompanies(ApplyFilters(companyList, filterMap, FilterEntryKeys), status)

\* handleFilterChange: setFilters(prev => ({ ...prev, [column]: value }))
handleFilterChange(prev, column, value) == [prev EXCEPT ![column] = value]

----------------------------------------------------------------------------
(* Cell edit and verification overlay                                      *)

\* m[companyName]?.[metricKey] !== undefined
HasEntry(m, companyName, metricKey) ==
  companyName \in DOMAIN m /\ metricKey \in DOMAIN m[companyName]

\* { ...prev[companyName] }: nothing is spread when the company has no entry
Inner(prev, companyName) ==
  IF companyName \in DOMAIN prev THEN prev[companyName] ELSE EmptyMap

\* handleVerificationChange storing true whatever flag it is handed
handleVerificationChangeAlwaysTrue(prev, companyName, metricKey, verified) ==
  MapPut(prev, companyName, MapPut(Inner(prev, companyName), metricKey, TRUE))

\* the updater of handleVerificationChange
handleVerificationChange(prev, companyName, metricKey, verified) ==
  MapPut(prev, companyName, MapPut(Inner(prev, companyName), metricKey, verified))

\* the updater of handleValueChange
handleValueChange(prev, companyName, metricKey, newValue) ==
  MapPut(prev, companyName, MapPut(Inner(prev, companyName), metricKey, newValue))

\* handleRevert without the removal of a company left with no override
handleRevertKeepsEmptyCompany(prev, companyName, metricKey) ==
  IF companyName \in DOMAIN prev
    THEN MapPut(prev, companyName, MapDelete(prev[companyName], metricKey))
    ELSE prev

\* handleRevert deleting the company's whole entry
handleRevertDropsCompany(prev, companyName, metricKey) ==
  IF companyName \in DOMAIN prev THEN MapDelete(prev, companyName) ELSE prev

\* the updater of handleRevert
handleRevert(prev, companyName, metricKey) ==
  IF companyName \in DOMAIN prev
    THEN LET rest == MapDelete(prev[companyName], metricKey)
         IN IF Cardinality(DOMAIN rest) = 0
              THEN MapDelete(prev, companyName)
              ELSE MapPut(prev, companyName, rest)
    ELSE prev

\* columns.render: the text a metric cell shows
currentValue(company, key, edits) ==
  IF HasEntry(edits, company["company_name"].str, key)
    THEN edits[company["company_name"].str][key]
    ELSE company[key].str

\* columns.render: isEdited
isEdited(company, key, edits) == HasEntry(edits, company["company_name"].str, key)

\* columns.render: verifications[company_name]?.[key] || false
isVerified(company, key, verifs) ==
  /\ HasEntry(verifs, company["company_name"].str, key)
  /\ verifs[company["company_name"].str][key]

\* the number of (company, field) entries of a map
NumEntries(m) ==
  Cardinality(UNION { { <<c, k>> : k \in DOMAIN m[c] } : c \in DOMAIN m })

----------------------------------------------------------------------------
(* Local storage                                                           *)

\* columnSettings initialised from the stored settings when there are some
InitialColumnSettingsFromStorage(storage, configs) ==
  IF storage["companyTableColumns"] # JNull
    THEN ParseColumns(storage["companyTableColumns"])
    ELSE configs

\* the initial state of columnSettings
InitialColumnSettings(storage, configs) == configs

\* the initial state of verifications
InitialVerifications(storage) ==
  IF storage["companyTableVerifications"] # JNull
    THEN ParseVerifications(storage["companyTableVerifications"])
    ELSE EmptyMap

\* cellEdits initialised without reading storage
InitialCellEditsEmpty(storage) == EmptyMap

\* the initial state of cellEdits
InitialCellEdits(storage) ==
  IF storage["companyTableEdits"] # JNull
    THEN ParseEdits(storage["companyTableEdits"])
    ELSE EmptyMap

\* the effect on [columnSettings]
PersistColumns(storage, cols) ==
  [storage EXCEPT !["companyTableColumns"] = StringifyColumns(cols)]

\* the effect on [verifications]
PersistVerifications(storage, verifs) ==
  [storage EXCEPT !["companyTableVerifications"] = StringifyVerifications(verifs)]

\* the effect on [cellEdits] not writing
PersistEditsSkipped(storage, edits) == storage

\* the effect on [cellEdits]
PersistEdits(storage, edits) ==
  [storage EXCEPT !["companyTableEdits"] = StringifyEdits(edits)]

----------------------------------------------------------------------------
(* Columns                                                                 *)

\* toggleColumnVisibility dropping the column in place of hiding it
toggleColumnVisibilityByFilter(prev, key) ==
  SelectSeq(prev, LAMBDA col : col.key # key)

\* toggleColumnVisibility that also sends a hidden column to the end of the
\* order
toggleColumnVisibilityHiddenLast(prev, key) ==
  [i \in 1..Len(prev) |->
     IF prev[i].key = key
       THEN [prev[i] EXCEPT !.visible = ~prev[i].visible,
                            !.order = IF prev[i].visible THEN Len(prev) ELSE prev[i].order]
       ELSE prev[i]]

\* the updater of toggleColumnVisibility
toggleColumnVisibility(prev, key) ==
  [i \in 1..Len(prev) |->
     IF prev[i].key = key THEN [prev[i] EXCEPT !.visible = ~prev[i].visible]
                          ELSE prev[i]]

\* handleDragEnd writing the new order index of the moved column only
handleDragEndNumbersMovedOnly(cols, activeId, overId) ==
  LET oldIndex == findIndex(cols, activeId)
      newIndex == findIndex(cols, overId)
      movedItem == [cols[oldIndex] EXCEPT !.order = newIndex - 1]
      removed == SubSeq(cols, 1, oldIndex - 1) \o SubSeq(cols, oldIndex + 1, Len(cols))
  IN SubSeq(removed, 1, newIndex - 1) \o <<movedItem>>
       \o SubSeq(removed, newIndex, Len(removed))

\* handleDragEnd exchanging the two columns
handleDragEndExchanging(cols, activeId, overId) ==
  LET oldIndex == findIndex(cols, activeId)
      newIndex == findIndex(cols, overId)
      exchanged == [i \in 1..Len(cols) |->
                      IF i = oldIndex THEN cols[newIndex]
                      ELSE IF i = newIndex THEN cols[oldIndex] ELSE cols[i]]
  IN [i \in 1..Len(exchanged) |-> [exchanged[i] EXCEPT !.order = i - 1]]

\* handleDragEnd: the list handed to setColumnSettings; positions are 1-based
\* here and the order indices 0-based as in the code
handleDragEnd(cols, activeId, overId) ==
  LET oldIndex == findIndex(cols, activeId)
      newIndex == findIndex(cols, overId)
      movedItem == cols[oldIndex]
      removed == SubSeq(cols, 1, oldIndex - 1) \o SubSeq(cols, oldIndex + 1, Len(cols))
      inserted == SubSeq(removed, 1, newIndex - 1) \o <<movedItem>>
                    \o SubSeq(removed, newIndex, Len(removed))
  IN [i \in 1..Len(inserted) |-> [inserted[i] EXCEPT !.order = i - 1]]

\* the number of columns that sort before the one at position i
OrderRank(cols, i) ==
  Cardinality({ j \in 1..Len(cols) :
                  \/ cols[j].order < cols[i].order
                  \/ (cols[j].order = cols[i].order /\ j < i) })

\* visibleColumns: columnSettings.filter(visible).sort by order (stable)
visibleColumns(cols) ==
  LET vis == SelectSeq(cols, LAMBDA c : c.visible)
  IN [r \in 1..Len(vis) |-> vis[CHOOSE i \in 1..Len(vis) : OrderRank(vis, i) = r - 1]]

visibleKeys(cols) == { cols[i].key : i \in { j \in 1..Len(cols) : cols[j].visible } }

----------------------------------------------------------------------------
(* CSV export                                                              *)

\* exportToCSV.getValue
getValue(company, key, edits) ==
  IF HasEntry(edits, company["company_name"].str, key)
    THEN edits[company["company_name"].str][key]
    ELSE company[key].str

\* exportToCSV.formatCitations
formatCitations(citations) == Join(citations, <<",", " ">>)

Field(column, from, how) == [column |-> column, from |-> from, how |-> how]

\* the members the object literal of the row names, in their order
ExportFields ==
  << Field("company_name", "company_name", "getValue"),
     Field("state", "state", "getValue"),
     Field("investment_grade", "investment_grade", "getValue"),
     Field("investment_grade_summary", "investment_grade_summary", "plain"),
     Field("investment_grade_citations", "investment_grade_citations", "citations"),
     Field("est_annual_revenue", "est_annual_revenue", "getValue"),
     Field("est_annual_revenue_citations", "est_annual_revenue_citations", "citations"),
     Field("est_yoy_growth", "est_yoy_growth", "getValue"),
     Field("est_yoy_growth_citations", "est_yoy_growth_citations", "citations"),
     Field("pe_backed", "pe_backed", "getValue"),
     Field("pe_backed_citations", "pe_backed_citations", "citations"),
     Field("can_accommodate_allocation", "can_accommodate_allocation", "getValue"),
     Field("can_accommodate_allocation_citations",
           "can_accommodate_allocation_citations", "citations"),
     Field("website", "website", "getValue"),
     Field("osha_annual_average_employees_2020", "annual_average_employees_2020", "getValue"),
     Field("osha_annual_average_employees_2021", "annual_average_employees_2021", "getValue"),
     Field("osha_annual_average_employees_2022", "annual_average_employees_2022", "getValue"),
     Field("osha_annual_average_employees_2023", "annual_average_employees_2023", "getValue"),
     Field("osha_annual_average_employees_2024", "annual_average_employees_2024", "getValue"),
     Field("osha_total_hours_worked_2020", "total_hours_worked_2020", "getValue"),
     Field("osha_total_hours_worked_2021", "total_hours_worked_2021", "getValue"),
     Field("osha_total_hours_worked_2022", "total_hours_worked_2022", "getValue"),
     Field("osha_total_hours_worked_2023", "total_hours_worked_2023", "getValue"),
     Field("osha_total_hours_worked_2024", "total_hours_worked_2024", "getValue") >>

\* a member of the row object: its name and its value
MemberOf(column, value) == [column |-> column, value |-> value]
\* the name of a member the object literal names, and of one contactData adds
FixedColumn(name) == <<"member", name>>
ContactColumn(position, kind) == <<"contact", position, kind>>

\* String.prototype.trim
RECURSIVE trim(_)
trim(text) ==
  IF text = <<>> THEN <<>>
  ELSE IF Head(text) = " " THEN trim(Tail(text))
  ELSE IF text[Len(text)] = " " THEN trim(SubSeq(text, 1, Len(text) - 1))
  ELSE text

\* text.replace(/\s+/g, '_')
RECURSIVE replaceWhitespace(_)
replaceWhitespace(text) ==
  IF text = <<>> THEN <<>>
  ELSE IF Head(text) # " " THEN <<Head(text)>> \o replaceWhitespace(Tail(text))
  ELSE IF Len(text) > 1 /\ text[2] = " " THEN replaceWhitespace(Tail(text))
  ELSE <<"_">> \o replaceWhitespace(Tail(text))

\* a string member of a contact, '' when it has none
ContactText(contact, name) ==
  LET member == Member(contact, name)
  IN IF Truthy(member) THEN ParseStr(member) ELSE Empty

\* (contact.position || 'contact').toLowerCase().replace(/\s+/g, '_')
contactPosition(contact) ==
  LET position == ContactText(contact, "position")
  IN replaceWhitespace(toLowerCase(IF position = Empty
                                    THEN <<"c","o","n","t","a","c","t">>
                                    ELSE position))

\* the keys of contactsByPosition, in the order they are first set
RECURSIVE PositionsOf(_, _)
PositionsOf(contacts, seen) ==
  IF contacts = <<>> THEN <<>>
  ELSE LET position == contactPosition(Head(contacts))
       IN IF position \in seen THEN PositionsOf(Tail(contacts), seen)
          ELSE <<position>> \o PositionsOf(Tail(contacts), seen \cup {position})

\* exportToCSV: contactData, the members made of company.contact_info;
\* none when it is empty, is not JSON or is not an array
contactData(company) ==
  LET cell == company["contact_info"].str
      parsed == IF Truthy(cell) THEN JSONparse(cell) ELSE Thrown
  IN IF parsed = Thrown \/ parsed[1] # "arr" THEN <<>>
     ELSE LET contacts == [i \in 1..Len(parsed[2]) |-> ParseObj(parsed[2][i])]
              positions == PositionsOf(contacts, {})
              at(position) == SelectSeq(contacts, LAMBDA c : contactPosition(c) = position)
              texts(position, kind) ==
                LET all == [i \in 1..Len(at(position)) |->
                              IF kind = "name"
                                THEN trim(ContactText(at(position)[i], "first_name")
                                            \o <<" ">>
                                            \o ContactText(at(position)[i], "last_name"))
                              ELSE ContactText(at(position)[i], "email")]
                IN Join(SelectSeq(all, LAMBDA t : t # Empty), <<",", " ">>)
              members(position) ==
                (IF texts(position, "name") # Empty
                   THEN <<MemberOf(ContactColumn(position, "name"), texts(position, "name"))>>
                   ELSE <<>>)
                \o (IF texts(position, "email") # Empty
                      THEN <<MemberOf(ContactColumn(position, "email"),
                                      texts(position, "email"))>>
                      ELSE <<>>)
              collect[n \in 0..Len(positions)] ==
                IF n = 0 THEN <<>> ELSE collect[n - 1] \o members(positions[n])
          IN collect[Len(positions)]

\* the row object of one company: its members in their order
ExportRow(company, edits) ==
  LET named == [i \in 1..Len(ExportFields) |->
                  LET f == ExportFields[i]
                  IN MemberOf(FixedColumn(f.column),
                       CASE f.how = "getValue" -> getValue(company, f.from, edits)
                         [] f.how = "citations" -> formatCitations(company[f.from].items)
                         [] OTHER -> company[f.from].str)]
      \* contactData is spread into the row object behind website
      WebsiteIndex == CHOOSE i \in 1..Len(ExportFields) : ExportFields[i].column = "website"
  IN SubSeq(named, 1, WebsiteIndex) \o contactData(company)
       \o SubSeq(named, WebsiteIndex + 1, Len(named))

\* exportToCSV: dataToExport
dataToExport(visible, edits) ==
  [i \in 1..Len(visible) |-> ExportRow(visible[i], edits)]

\* the value of a member of a row object, '' when it has no such member
ValueOf(row, column) ==
  IF \E i \in 1..Len(row) : row[i].column = column
    THEN row[CHOOSE i \in 1..Len(row) : row[i].column = column].value
    ELSE Empty

\* Papa.unparse of an array of objects: the header is Object.keys of the
\* first row, and every row gives a line with its values of those keys;
\* no rows give an empty file
Unparse(rows) ==
  LET header == IF rows = <<>> THEN <<>>
                ELSE [i \in 1..Len(rows[1]) |-> rows[1][i].column]
  IN [offered |-> TRUE,
      header |-> header,
      lines |-> [r \in 1..Len(rows) |->
                   [h \in 1..Len(header) |-> ValueOf(rows[r], header[h])]]]

\* no file is offered for download
NoDownload == [offered |-> FALSE, header |-> <<>>, lines |-> <<>>]

\* the position in the header of a file of a column the object literal
\* names, 0 when it has none
HeaderIndex(file, column) ==
  IF \E i \in 1..Len(file.header) : file.header[i] = FixedColumn(column)
    THEN CHOOSE i \in 1..Len(file.header) : file.header[i] = FixedColumn(column)
    ELSE 0

----------------------------------------------------------------------------
(* Authentication                                                          *)

\* import.meta.env of a build: '' stands for a variable that is not set as
\* well as for one set to '', which every read of them treats alike
AuthEnvs ==
  { [VITE_AUTH_MODE |-> mode, VITE_DEV_USERNAME |-> name,
     VITE_DEV_PASSWORD |-> word, VITE_API_BASE_URL |-> url] :
      mode \in {"", "local", "api", "oauth"}, name \in {"", "dev"},
      word \in {"", "pw"}, url \in {"", "https://api"} }

\* the credentials held by the Parameter Store the Lambda reads: set, with
\* a value missing, or not to be had because the request to it fails
ParameterStores ==
  { [available |-> TRUE, username |-> "dev", password |-> "pw"],
    [available |-> TRUE, username |-> "dev", password |-> ""],
    [available |-> FALSE, username |-> "", password |-> ""] }

\* exports.handler of the Lambda: the object it returns for the event
handler(event, store) ==
  IF event.username = "" \/ event.password = ""
    THEN JObj([error |-> JStr("Username and password are required")])
  ELSE IF ~store.available
    THEN JObj([error |-> JStr("Internal server error"),
               message |-> JStr("Authentication service temporarily unavailable")])
  ELSE IF store.username = "" \/ store.password = ""
    THEN JObj([error |-> JStr("Authentication configuration not found")])
  ELSE LET isValid == store.username = event.username /\ store.password = event.password
       IN JObj([valid |-> JBool(isValid),
                message |-> JStr(IF isValid THEN "Authentication successful"
                                 ELSE "Invalid credentials")])

\* what fetch of the /auth endpoint can give: it rejects; or it resolves
\* with a response of a success status or another one, whose body is what
\* the Lambda returned, some other JSON, or no JSON (Thrown)
Replies(username, password) ==
  LET event == [username |-> username, password |-> password]
      bodies == { handler(event, store) : store \in ParameterStores }
                  \cup { JObj([valid |-> JBool(TRUE)]), JObj([valid |-> JStr("true")]),
                         JObj([valid |-> JNum(1)]), JNull, JBool(TRUE),
                         JArr(<<JBool(TRUE)>>), Thrown }
  IN { [rejects |-> TRUE, ok |-> FALSE, body |-> Thrown] }
       \cup { [rejects |-> FALSE, ok |-> ok, body |-> body] :
                ok \in BOOLEAN, body \in bodies }

\* validateCredentials comparing the user name only in local mode
validateCredentialsNameOnly(env, username, password, reply) ==
  LET authMode == IF env.VITE_AUTH_MODE # "" THEN env.VITE_AUTH_MODE ELSE "local"
      devUsername == IF env.VITE_DEV_USERNAME # "" THEN env.VITE_DEV_USERNAME ELSE "admin"
  IN IF authMode = "local"
       THEN [fetches |-> FALSE, rejects |-> FALSE, resolves |-> username = devUsername]
     ELSE IF authMode = "api" /\ env.VITE_API_BASE_URL # ""
       THEN [fetches |-> TRUE, rejects |-> FALSE,
             resolves |-> /\ ~reply.rejects
                          /\ reply.ok
                          /\ reply.body # Thrown
                          /\ reply.body # JNull
                          /\ reply.body[1] = "obj"
                          /\ Member(ParseObj(reply.body), "valid") = JBool(TRUE)]
     ELSE [fetches |-> FALSE, rejects |-> FALSE, resolves |-> FALSE]

\* validateCredentials without its catch: what is thrown rejects the promise
validateCredentialsWithoutCatch(env, username, password, reply) ==
  LET authMode == IF env.VITE_AUTH_MODE # "" THEN env.VITE_AUTH_MODE ELSE "local"
      devUsername == IF env.VITE_DEV_USERNAME # "" THEN env.VITE_DEV_USERNAME ELSE "admin"
      devPassword == IF env.VITE_DEV_PASSWORD # "" THEN env.VITE_DEV_PASSWORD
                     ELSE "password123"
  IN IF authMode = "local"
       THEN [fetches |-> FALSE, rejects |-> FALSE,
             resolves |-> username = devUsername /\ password = devPassword]
     ELSE IF authMode = "api" /\ env.VITE_API_BASE_URL # ""
       THEN [fetches |-> TRUE,
             rejects |-> reply.rejects \/ (reply.ok /\ reply.body \in {Thrown, JNull}),
             resolves |-> /\ ~reply.rejects
                          /\ reply.ok
                          /\ reply.body # Thrown
                          /\ reply.body # JNull
                          /\ reply.body[1] = "obj"
                          /\ Member(ParseObj(reply.body), "valid") = JBool(TRUE)]
     ELSE [fetches |-> FALSE, rejects |-> TRUE, resolves |-> FALSE]

\* validateCredentials: whether it calls fetch, and what its promise
\* resolves to when fetch, if called, gives reply; every throw inside it,
\* that of reading a member of null included, is caught and gives false,
\* so that the promise never rejects
validateCredentials(env, username, password, reply) ==
  LET authMode == IF env.VITE_AUTH_MODE # "" THEN env.VITE_AUTH_MODE ELSE "local"
      devUsername == IF env.VITE_DEV_USERNAME # "" THEN env.VITE_DEV_USERNAME ELSE "admin"
      devPassword == IF env.VITE_DEV_PASSWORD # "" THEN env.VITE_DEV_PASSWORD
                     ELSE "password123"
  IN IF authMode = "local"
       THEN [fetches |-> FALSE, rejects |-> FALSE,
             resolves |-> username = devUsername /\ password = devPassword]
     ELSE IF authMode = "api" /\ env.VITE_API_BASE_URL # ""
       THEN [fetches |-> TRUE, rejects |-> FALSE,
             resolves |-> /\ ~reply.rejects
                          /\ reply.ok
                          /\ reply.body # Thrown
                          /\ reply.body # JNull
                          /\ reply.body[1] = "obj"
                          /\ Member(ParseObj(reply.body), "valid") = JBool(TRUE)]
     ELSE [fetches |-> FALSE, rejects |-> FALSE, resolves |-> FALSE]

\* the state of a LoginForm that has just mounted
FreshLoginForm == [username |-> "", password |-> "", error |-> "", loading |-> FALSE]

\* no second session is open
NoSession == [open |-> FALSE, verifications |-> EmptyMap, cellEdits |-> EmptyMap]

----------------------------------------------------------------------------
(* State                                                                   *)

VARIABLES
  companies,       \* useState<Company[]>: the source record set
  loading,         \* useState(true)
  sortStatus,      \* { columnAccessor, direction }
  filters,         \* the filter text of every Company key
  columnConfigs,   \* the module-level array columnConfigs
  columnSettings,  \* useState<ColumnConfig[]>
  aliased,         \* keys whose columnSettings element is the columnConfigs object
  verifications,   \* company -> field -> boolean
  cellEdits,       \* company -> field -> override text
  localStorage,    \* window.localStorage
  download,        \* the file offered for download by the step just taken
  isAuthenticated, \* App: useState(false), set by the mount effect
  loginForm,       \* LoginForm: username, password, error, loading
  authFetch,       \* the POST to the /auth endpoint is in flight
  env,             \* import.meta.env of the build
  other,           \* the override maps of a second session on the same storage
  editors,         \* MetricCell: editValue of the cells with isEditing
  lastOp           \* the handler that ran last, with its arguments

vars == <<companies, loading, sortStatus, filters, columnConfigs, columnSettings,
          aliased, verifications, cellEdits, localStorage, download,
          isAuthenticated, loginForm, authFetch, env, other, editors, lastOp>>

\* before tells what the handler found: the entry of the verification map
\* it was about to write, whether a restart found the column list changed,
\* the time zone of the browser that loaded a file,
\* what the first mount found stored under companyTableColumns, or the
\* column a header was dropped on
Op(name, company, key, before) ==
  [op |-> name, company |-> company, key |-> key, before |-> before]

\* the entry of a verification map for (companyName, metricKey)
EntryState(verifs, companyName, metricKey) ==
  IF ~HasEntry(verifs, companyName, metricKey) THEN "absent"
  ELSE IF verifs[companyName][metricKey] THEN "true" ELSE "false"

DefaultSortStatus == [columnAccessor |-> "company_name", direction |-> "asc"]
DefaultFilters == [k \in CompanyKeys |-> Empty]

\* the records the table shows
VisibleCompanies == filteredAndSortedCompanies(companies, filters, sortStatus)

\* the company names of the rows shown (sorting moves rows, it drops none)
VisibleNames ==
  LET kept == ApplyFilters(companies, filters, FilterEntryKeys)
  IN { kept[i]["company_name"].str : i \in 1..Len(kept) }

\* the table renders a MetricCell in column key
MetricColumnShown(key) ==
  \E i \in 1..Len(columnSettings) :
    /\ columnSettings[i].key = key
    /\ columnSettings[i].visible
    /\ columnSettings[i].type = "metric"

\* what a browser may hold under companyTableColumns when the page is first
\* opened: nothing, the list of a version that had a column since removed,
\* the list of a version with fewer columns, a list naming a column twice
StoredColumnSettings ==
  [ nothing |-> JNull,
    unknown_column |->
      StringifyColumns(<<Col("legacy_rating", "metric", 0)>> \o DefaultColumnConfigs),
    fewer_columns |-> StringifyColumns(SubSeq(DefaultColumnConfigs, 1, 2)),
    duplicate_column |->
      StringifyColumns(DefaultColumnConfigs \o <<Col("state", "definition", 19)>>) ]

\* the page is opened by a user who has signed in before, in a development
\* build: App's mount effect finds the flag, CompanyTable mounts, its state
\* initialisers run, then its three persistence effects
Init ==
  /\ companies = <<>>
  /\ loading = TRUE
  /\ sortStatus = DefaultSortStatus
  /\ filters = DefaultFilters
  /\ columnConfigs = DefaultColumnConfigs
  /\ aliased = ColumnKeys
  /\ download = NoDownload
  /\ isAuthenticated = TRUE
  /\ loginForm = FreshLoginForm
  /\ authFetch = FALSE
  /\ env \in { e \in AuthEnvs : \A name \in DOMAIN e : e[name] = "" }
  /\ other = NoSession
  /\ editors = EmptyMap
  /\ \E label \in DOMAIN StoredColumnSettings :
       LET storage == [EmptyStorage EXCEPT
                         !["companyTableColumns"] = StoredColumnSettings[label],
                         !["isAuthenticated"] = <<"text", "true">>,
                         !["username"] = <<"text", "admin">>]
       IN /\ columnSettings = InitialColumnSettings(storage, DefaultColumnConfigs)
          /\ verifications = InitialVerifications(storage)
          /\ cellEdits = InitialCellEdits(storage)
          /\ localStorage =
               PersistEdits(
                 PersistVerifications(
                   PersistColumns(storage,
                                  InitialColumnSettings(storage, DefaultColumnConfigs)),
                   InitialVerifications(storage)),
                 InitialCellEdits(storage))
          /\ lastOp = Op("mount", Empty, "", label)

\* the page is opened in any build by any user: App's mount effect reads
\* the flag, and CompanyTable mounts when the flag is 'true'
InitApp ==
  /\ companies = <<>>
  /\ loading = TRUE
  /\ sortStatus = DefaultSortStatus
  /\ filters = DefaultFilters
  /\ columnConfigs = DefaultColumnConfigs
  /\ columnSettings = DefaultColumnConfigs
  /\ aliased = ColumnKeys
  /\ verifications = EmptyMap
  /\ cellEdits = EmptyMap
  /\ download = NoDownload
  /\ loginForm = FreshLoginForm
  /\ authFetch = FALSE
  /\ env \in AuthEnvs
  /\ other = NoSession
  /\ editors = EmptyMap
  /\ \E authStatus \in {JNull, <<"text", "true">>, <<"text", "false">>} :
       LET storage == [EmptyStorage EXCEPT !["isAuthenticated"] = authStatus]
       IN /\ isAuthenticated = (authStatus = <<"text", "true">>)
          /\ localStorage =
               IF authStatus = <<"text", "true">>
                 THEN PersistEdits(
                        PersistVerifications(
                          PersistColumns(storage, DefaultColumnConfigs), EmptyMap),
                        EmptyMap)
                 ELSE storage
          /\ lastOp = Op("mount", Empty, "", authStatus)

----------------------------------------------------------------------------
(* Operations                                                              *)

\* the CSV load effect without its catch callback: an exception of the
\* transformation is not handled
LoadCompleteWithoutCatch(file, zone) ==
  /\ isAuthenticated
  /\ loading
  /\ companies' = IF AnyRowThrows(CsvFiles[file]) THEN companies
                  ELSE TransformAll(CsvFiles[file], zone)
  /\ loading' = AnyRowThrows(CsvFiles[file])
  /\ download' = NoDownload
  /\ lastOp' = Op("loadComplete", Empty, file, zone)
  /\ UNCHANGED <<sortStatus, filters, columnConfigs, columnSettings, aliased,
                 verifications, cellEdits, localStorage,
                 isAuthenticated, loginForm, authFetch, env, other, editors>>

\* the CSV load effect when the file is fetched: Papa.parse calls complete
\* with the rows, which are transformed and stored; an exception of the
\* transformation leaves the complete callback and the then callback and
\* is caught by the catch callback, which only ends the loading state
LoadComplete(file, zone) ==
  /\ isAuthenticated
  /\ loading
  /\ companies' = IF AnyRowThrows(CsvFiles[file]) THEN companies
                  ELSE TransformAll(CsvFiles[file], zone)
  /\ loading' = FALSE
  /\ download' = NoDownload
  /\ lastOp' = Op("loadComplete", Empty, file, zone)
  /\ UNCHANGED <<sortStatus, filters, columnConfigs, columnSettings, aliased,
                 verifications, cellEdits, localStorage,
                 isAuthenticated, loginForm, authFetch, env, other, editors>>

\* the CSV load effect when fetch or response.text() rejects: the catch
\* callback
LoadFails ==
  /\ isAuthenticated
  /\ loading
  /\ loading' = FALSE
  /\ download' = NoDownload
  /\ lastOp' = Op("loadFailed", Empty, "", "")
  /\ UNCHANGED <<companies, sortStatus, filters, columnConfigs, columnSettings,
                 aliased, verifications, cellEdits, localStorage,
                 isAuthenticated, loginForm, authFetch, env, other, editors>>

\* a filter input changes: handleFilterChange(column, value)
FilterChange(column, value) ==
  /\ isAuthenticated
  /\ value # filters[column]
  /\ filters' = handleFilterChange(filters, column, value)
  /\ download' = NoDownload
  /\ lastOp' = Op("handleFilterChange", value, column, "")
  /\ UNCHANGED <<companies, loading, sortStatus, columnConfigs, columnSettings,
                 aliased, verifications, cellEdits, localStorage,
                 isAuthenticated, loginForm, authFetch, env, other, editors>>

\* a column header is clicked: onSortStatusChange(status)
SortStatusChange(column, direction) ==
  /\ isAuthenticated
  /\ column \in visibleKeys(columnSettings)
  /\ sortStatus # [columnAccessor |-> column, direction |-> direction]
  /\ sortStatus' = [columnAccessor |-> column, direction |-> direction]
  /\ download' = NoDownload
  /\ lastOp' = Op("setSortStatus", Empty, column, "")
  /\ UNCHANGED <<companies, loading, filters, columnConfigs, columnSettings,
                 aliased, verifications, cellEdits, localStorage,
                 isAuthenticated, loginForm, authFetch, env, other, editors>>

\* MetricCell.handleVerificationToggle in a cell of a row shown, then the effect on [verifications]
VerificationToggle(companyName, metricKey) ==
  /\ isAuthenticated
  /\ <<companyName, metricKey>> \notin DOMAIN editors
  /\ MetricColumnShown(metricKey)
  /\ LET verified == ~(/\ HasEntry(verifications, companyName, metricKey)
                        /\ verifications[companyName][metricKey])
         next == handleVerificationChange(verifications, companyName, metricKey, verified)
     IN /\ NumEntries(next) <= MaxEntries
        /\ verifications' = next
        /\ localStorage' = PersistVerifications(localStorage, next)
  /\ download' = NoDownload
  /\ lastOp' = Op("handleVerificationChange", companyName, metricKey,
                 EntryState(verifications, companyName, metricKey))
  /\ UNCHANGED <<companies, loading, sortStatus, filters, columnConfigs,
                 columnSettings, aliased, cellEdits,
                 isAuthenticated, loginForm, authFetch, env, other, editors>>

\* handleEditSave that also withdraws the verification of the edited cell
EditSaveClearsVerification(companyName, metricKey, newValue) ==
  /\ isAuthenticated
  /\ MetricColumnShown(metricKey)
  /\ LET next == handleValueChange(cellEdits, companyName, metricKey, newValue)
         cleared == IF HasEntry(verifications, companyName, metricKey)
                      THEN handleVerificationChange(verifications, companyName,
                                                    metricKey, FALSE)
                      ELSE verifications
     IN /\ NumEntries(next) <= MaxEntries
        /\ cellEdits' = next
        /\ verifications' = cleared
        /\ localStorage' = PersistVerifications(PersistEdits(localStorage, next), cleared)
  /\ download' = NoDownload
  /\ lastOp' = Op("handleValueChange", companyName, metricKey, "")
  /\ UNCHANGED <<companies, loading, sortStatus, filters, columnConfigs,
                 columnSettings, aliased,
                 isAuthenticated, loginForm, authFetch, env, other, editors>>

\* handleEditSave writing the draft into the record of the company as well
EditSaveIntoRecord(companyName, metricKey, newValue) ==
  /\ isAuthenticated
  /\ MetricColumnShown(metricKey)
  /\ LET next == handleValueChange(cellEdits, companyName, metricKey, newValue)
     IN /\ NumEntries(next) <= MaxEntries
        /\ cellEdits' = next
        /\ localStorage' = PersistEdits(localStorage, next)
  /\ companies' = [i \in 1..Len(companies) |->
                     IF companies[i]["company_name"].str = companyName
                       THEN [companies[i] EXCEPT ![metricKey].str = newValue]
                       ELSE companies[i]]
  /\ download' = NoDownload
  /\ lastOp' = Op("handleValueChange", companyName, metricKey, "")
  /\ UNCHANGED <<loading, sortStatus, filters, columnConfigs,
                 columnSettings, aliased, verifications,
                 isAuthenticated, loginForm, authFetch, env, other, editors>>

\* MetricCell.handleEditSave in a cell of a row shown with the draft newValue, then the effect on
\* [cellEdits]
EditSave(companyName, metricKey, newValue) ==
  /\ isAuthenticated
  /\ <<companyName, metricKey>> \notin DOMAIN editors
  /\ MetricColumnShown(metricKey)
  /\ LET next == handleValueChange(cellEdits, companyName, metricKey, newValue)
     IN /\ NumEntries(next) <= MaxEntries
        /\ cellEdits' = next
        /\ localStorage' = PersistEdits(localStorage, next)
  /\ download' = NoDownload
  /\ lastOp' = Op("handleValueChange", companyName, metricKey, "")
  /\ UNCHANGED <<companies, loading, sortStatus, filters, columnConfigs,
                 columnSettings, aliased, verifications,
                 isAuthenticated, loginForm, authFetch, env, other, editors>>

\* MetricCell.handleRevert (the button of an edited cell of a row shown), then the effect
\* on [cellEdits]
Revert(companyName, metricKey) ==
  /\ isAuthenticated
  /\ <<companyName, metricKey>> \notin DOMAIN editors
  /\ MetricColumnShown(metricKey)
  /\ HasEntry(cellEdits, companyName, metricKey)
  /\ LET next == handleRevert(cellEdits, companyName, metricKey)
     IN /\ cellEdits' = next
        /\ localStorage' = PersistEdits(localStorage, next)
  /\ download' = NoDownload
  /\ lastOp' = Op("handleRevert", companyName, metricKey, "")
  /\ UNCHANGED <<companies, loading, sortStatus, filters, columnConfigs,
                 columnSettings, aliased, verifications,
                 isAuthenticated, loginForm, authFetch, env, other, editors>>

\* handleEditSave leaving the overrides alone when the draft is the value
\* the cell shows
EditorSaveSkipsUnchanged ==
  \E companyName \in VisibleNames, metricKey \in CellKeys :
    /\ isAuthenticated
    /\ <<companyName, metricKey>> \in DOMAIN editors
    /\ LET editValue == editors[<<companyName, metricKey>>]
           shown == CHOOSE company \in { companies[i] : i \in 1..Len(companies) } :
                      company["company_name"].str = companyName
           next == IF editValue = currentValue(shown, metricKey, cellEdits)
                     THEN cellEdits
                     ELSE handleValueChange(cellEdits, companyName, metricKey, editValue)
       IN /\ NumEntries(next) <= MaxEntries
          /\ cellEdits' = next
          /\ localStorage' = PersistEdits(localStorage, next)
    /\ editors' = MapDelete(editors, <<companyName, metricKey>>)
    /\ download' = NoDownload
    /\ lastOp' = Op("handleEditSave", companyName, metricKey,
                   editors[<<companyName, metricKey>>])
    /\ UNCHANGED <<companies, loading, sortStatus, filters, columnConfigs,
                   columnSettings, aliased, verifications,
                   isAuthenticated, loginForm, authFetch, env, other>>

\* the edit button of a cell of a row shown: MetricCell.handleEditStart
\* opens the editor with the value the cell shows as its draft
EditStart ==
  \E companyName \in VisibleNames, metricKey \in CellKeys :
    /\ isAuthenticated
    /\ MetricColumnShown(metricKey)
    /\ <<companyName, metricKey>> \notin DOMAIN editors
    /\ \E i \in 1..Len(companies) :
         /\ companies[i]["company_name"].str = companyName
         /\ editors' = MapPut(editors, <<companyName, metricKey>>,
                              currentValue(companies[i], metricKey, cellEdits))
    /\ download' = NoDownload
    /\ lastOp' = Op("handleEditStart", companyName, metricKey, "")
    /\ UNCHANGED <<companies, loading, sortStatus, filters, columnConfigs,
                   columnSettings, aliased, verifications, cellEdits, localStorage,
                   isAuthenticated, loginForm, authFetch, env, other>>

\* the input of an open editor: onChange sets editValue to the text typed
EditChange ==
  \E companyName \in VisibleNames, metricKey \in CellKeys, text \in EditTexts :
    /\ isAuthenticated
    /\ <<companyName, metricKey>> \in DOMAIN editors
    /\ editors' = [editors EXCEPT ![<<companyName, metricKey>>] = text]
    /\ download' = NoDownload
    /\ lastOp' = Op("setEditValue", companyName, metricKey, "")
    /\ UNCHANGED <<companies, loading, sortStatus, filters, columnConfigs,
                   columnSettings, aliased, verifications, cellEdits, localStorage,
                   isAuthenticated, loginForm, authFetch, env, other>>

\* Enter or the save button of an open editor: MetricCell.handleEditSave
\* hands the draft to handleValueChange and closes the editor, then the
\* effect on [cellEdits]
EditorSave ==
  \E companyName \in VisibleNames, metricKey \in CellKeys :
    /\ isAuthenticated
    /\ <<companyName, metricKey>> \in DOMAIN editors
    /\ LET next == handleValueChange(cellEdits, companyName, metricKey,
                                     editors[<<companyName, metricKey>>])
       IN /\ NumEntries(next) <= MaxEntries
          /\ cellEdits' = next
          /\ localStorage' = PersistEdits(localStorage, next)
    /\ editors' = MapDelete(editors, <<companyName, metricKey>>)
    /\ download' = NoDownload
    /\ lastOp' = Op("handleEditSave", companyName, metricKey,
                   editors[<<companyName, metricKey>>])
    /\ UNCHANGED <<companies, loading, sortStatus, filters, columnConfigs,
                   columnSettings, aliased, verifications,
                   isAuthenticated, loginForm, authFetch, env, other>>

\* Escape or the cancel button of an open editor: MetricCell.handleEditCancel
EditCancel ==
  \E companyName \in VisibleNames, metricKey \in CellKeys :
    /\ isAuthenticated
    /\ <<companyName, metricKey>> \in DOMAIN editors
    /\ editors' = MapDelete(editors, <<companyName, metricKey>>)
    /\ download' = NoDownload
    /\ lastOp' = Op("handleEditCancel", companyName, metricKey,
                   editors[<<companyName, metricKey>>])
    /\ UNCHANGED <<companies, loading, sortStatus, filters, columnConfigs,
                   columnSettings, aliased, verifications, cellEdits, localStorage,
                   isAuthenticated, loginForm, authFetch, env, other>>

\* exportToCSV reading companies in place of filteredAndSortedCompanies
ExportToCSVOfAllCompanies ==
  /\ isAuthenticated
  /\ download' = Unparse(dataToExport(companies, cellEdits))
  /\ lastOp' = Op("exportToCSV", Empty, "", "")
  /\ UNCHANGED <<companies, loading, sortStatus, filters, columnConfigs,
                 columnSettings, aliased, verifications, cellEdits, localStorage,
                 isAuthenticated, loginForm, authFetch, env, other, editors>>

\* the Export CSV button: exportToCSV
ExportToCSV ==
  /\ isAuthenticated
  /\ download' = Unparse(dataToExport(VisibleCompanies, cellEdits))
  /\ lastOp' = Op("exportToCSV", Empty, "", "")
  /\ UNCHANGED <<companies, loading, sortStatus, filters, columnConfigs,
                 columnSettings, aliased, verifications, cellEdits, localStorage,
                 isAuthenticated, loginForm, authFetch, env, other, editors>>

\* a checkbox of Customize View: toggleColumnVisibility(key), then the
\* effect on [columnSettings]; the toggled element is a fresh object
ToggleColumn(key) ==
  /\ isAuthenticated
  /\ LET next == toggleColumnVisibility(columnSettings, key)
     IN /\ columnSettings' = next
        /\ localStorage' = PersistColumns(localStorage, next)
  /\ aliased' = aliased \ {key}
  /\ download' = NoDownload
  /\ lastOp' = Op("toggleColumnVisibility", Empty, key, "")
  /\ UNCHANGED <<companies, loading, sortStatus, filters, columnConfigs,
                 verifications, cellEdits,
                 isAuthenticated, loginForm, authFetch, env, other, editors>>

\* the column objects of columnConfigs after handleDragEnd has written the
\* order of the objects it shares with the new list
OrdersWrittenThrough(configs, shared, next) ==
  [i \in 1..Len(configs) |->
     IF configs[i].key \in shared
       THEN [configs[i] EXCEPT !.order = next[findIndex(next, configs[i].key)].order]
       ELSE configs[i]]

NoTarget == "(none)"

\* a header is dropped: handleDragEnd({ active, over }), then the effect on
\* [columnSettings]; over is NoTarget when the drop has no target
DragEnd(activeId, overId) ==
  /\ isAuthenticated
  /\ activeId \in visibleKeys(columnSettings)
  /\ overId = NoTarget \/ overId \in visibleKeys(columnSettings)
  /\ IF overId = NoTarget \/ activeId = overId
       THEN UNCHANGED <<columnSettings, columnConfigs, localStorage>>
       ELSE LET next == handleDragEnd(columnSettings, activeId, overId)
            IN /\ columnSettings' = next
               /\ columnConfigs' = OrdersWrittenThrough(columnConfigs, aliased, next)
               /\ localStorage' = PersistColumns(localStorage, next)
  /\ download' = NoDownload
  /\ lastOp' = Op("handleDragEnd", Empty, activeId, overId)
  /\ UNCHANGED <<companies, loading, sortStatus, filters, aliased,
                 verifications, cellEdits,
                 isAuthenticated, loginForm, authFetch, env, other, editors>>

\* CompanyTable mounts: its state initialisers run on the storage and on
\* the module-level columnConfigs, whose array becomes columnSettings, then
\* its three persistence effects
TableMounts(storage, configs) ==
  /\ companies' = <<>>
  /\ loading' = TRUE
  /\ sortStatus' = DefaultSortStatus
  /\ filters' = DefaultFilters
  /\ columnSettings' = InitialColumnSettings(storage, configs)
  /\ aliased' = ColumnKeys
  /\ verifications' = InitialVerifications(storage)
  /\ cellEdits' = InitialCellEdits(storage)
  /\ localStorage' =
       PersistEdits(
         PersistVerifications(
           PersistColumns(storage, InitialColumnSettings(storage, configs)),
           InitialVerifications(storage)),
         InitialCellEdits(storage))
  /\ download' = NoDownload
  /\ editors' = EmptyMap

\* CompanyTable is not rendered: its state is gone, and the variables of
\* the model hold what a mount on an empty storage would give them
TableUnmounts ==
  /\ companies' = <<>>
  /\ loading' = TRUE
  /\ sortStatus' = DefaultSortStatus
  /\ filters' = DefaultFilters
  /\ columnSettings' = columnConfigs'
  /\ aliased' = ColumnKeys
  /\ verifications' = EmptyMap
  /\ cellEdits' = EmptyMap
  /\ download' = NoDownload
  /\ editors' = EmptyMap

\* the page is loaded again in the same browser: the module is evaluated
\* anew, App's mount effect reads the flag, and when it is 'true'
\* CompanyTable mounts
Restart ==
  /\ columnConfigs' = DefaultColumnConfigs
  /\ isAuthenticated' = (localStorage["isAuthenticated"] = <<"text", "true">>)
  /\ IF localStorage["isAuthenticated"] = <<"text", "true">>
       THEN TableMounts(localStorage, DefaultColumnConfigs)
       ELSE TableUnmounts /\ UNCHANGED localStorage
  /\ loginForm' = FreshLoginForm
  /\ authFetch' = FALSE
  /\ lastOp' = Op("restart", Empty, "",
                 IF columnSettings = DefaultColumnConfigs THEN "default" ELSE "changed")
  /\ UNCHANGED <<env, other>>

\* the Sign In form is submitted: LoginForm.handleSubmit up to its await;
\* validateCredentials runs up to its fetch, if it comes to it. The button
\* is disabled while loading, and both inputs are required, so that the
\* browser does not submit the form while one of them is empty
LoginSubmit(username, password) ==
  /\ ~isAuthenticated
  /\ ~loginForm.loading
  /\ username # "" /\ password # ""
  /\ loginForm' = [username |-> username, password |-> password,
                   error |-> "", loading |-> TRUE]
  /\ authFetch' = validateCredentials(env, username, password,
                                      [rejects |-> TRUE, ok |-> FALSE, body |-> Thrown]).fetches
  /\ lastOp' = Op("handleSubmit", username, password, "")
  /\ UNCHANGED <<companies, loading, sortStatus, filters, columnConfigs,
                 columnSettings, aliased, verifications, cellEdits, localStorage,
                 download, isAuthenticated, env, other, editors>>

\* handleSubmit calling onLogin whatever the promise resolves to
LoginSettlesWithoutTest(reply) ==
  /\ loginForm.loading
  /\ LET settled == validateCredentials(env, loginForm.username, loginForm.password,
                                        reply)
         isValid == ~settled.rejects
     IN /\ IF isValid
             THEN /\ isAuthenticated' = TRUE
                  /\ TableMounts([localStorage EXCEPT
                                    !["isAuthenticated"] = <<"text", "true">>,
                                    !["username"] = <<"text", loginForm.username>>],
                                 columnConfigs)
                  /\ loginForm' = FreshLoginForm
             ELSE /\ loginForm' = [loginForm EXCEPT
                                     !.error =
                                       IF settled.rejects
                                         THEN "Authentication service unavailable. Please try again later."
                                         ELSE "Invalid username or password",
                                     !.loading = FALSE]
                  /\ UNCHANGED <<companies, loading, sortStatus, filters,
                                 columnSettings, aliased, verifications, cellEdits,
                                 localStorage, download, isAuthenticated, editors>>
        /\ lastOp' = Op("validateCredentials", loginForm.username, loginForm.password,
                        [fetched |-> authFetch, reply |-> reply,
                         rejected |-> settled.rejects, resolved |-> isValid])
  /\ authFetch' = FALSE
  /\ UNCHANGED <<columnConfigs, env, other>>

\* the promise of validateCredentials settles: the rest of handleSubmit;
\* for true App.handleLogin runs, LoginForm is replaced by CompanyTable,
\* which mounts, and setLoading(false) finds no form; a rejection is
\* caught and reported
LoginSettles(reply) ==
  /\ loginForm.loading
  /\ LET settled == validateCredentials(env, loginForm.username, loginForm.password,
                                        reply)
         isValid == ~settled.rejects /\ settled.resolves
     IN /\ IF isValid
             THEN /\ isAuthenticated' = TRUE
                  /\ TableMounts([localStorage EXCEPT
                                    !["isAuthenticated"] = <<"text", "true">>,
                                    !["username"] = <<"text", loginForm.username>>],
                                 columnConfigs)
                  /\ loginForm' = FreshLoginForm
             ELSE /\ loginForm' = [loginForm EXCEPT
                                     !.error =
                                       IF settled.rejects
                                         THEN "Authentication service unavailable. Please try again later."
                                         ELSE "Invalid username or password",
                                     !.loading = FALSE]
                  /\ UNCHANGED <<companies, loading, sortStatus, filters,
                                 columnSettings, aliased, verifications, cellEdits,
                                 localStorage, download, isAuthenticated, editors>>
        /\ lastOp' = Op("validateCredentials", loginForm.username, loginForm.password,
                        [fetched |-> authFetch, reply |-> reply,
                         rejected |-> settled.rejects, resolved |-> isValid])
  /\ authFetch' = FALSE
  /\ UNCHANGED <<columnConfigs, env, other>>

\* handleLogout removing the user name only
LogoutKeepsFlag ==
  /\ isAuthenticated
  /\ isAuthenticated' = FALSE
  /\ localStorage' = [localStorage EXCEPT !["username"] = JNull]
  /\ UNCHANGED <<columnConfigs, env, other>>
  /\ TableUnmounts
  /\ loginForm' = FreshLoginForm
  /\ authFetch' = FALSE
  /\ lastOp' = Op("handleLogout", Empty, "", "")

\* the Sign Out button: App.handleLogout; CompanyTable is replaced by
\* LoginForm, and the module-level columnConfigs stays as it is
Logout ==
  /\ isAuthenticated
  /\ isAuthenticated' = FALSE
  /\ localStorage' = [localStorage EXCEPT !["isAuthenticated"] = JNull,
                                          !["username"] = JNull]
  /\ UNCHANGED <<columnConfigs, env, other>>
  /\ TableUnmounts
  /\ loginForm' = FreshLoginForm
  /\ authFetch' = FALSE
  /\ lastOp' = Op("handleLogout", Empty, "", "")

\* the page is opened in a second tab of the same browser by the signed-in
\* user: its CompanyTable mounts on the shared storage, with the
\* columnConfigs of its own module
OtherSessionOpens ==
  /\ ~other.open
  /\ localStorage["isAuthenticated"] = <<"text", "true">>
  /\ other' = [open |-> TRUE,
               verifications |-> InitialVerifications(localStorage),
               cellEdits |-> InitialCellEdits(localStorage)]
  /\ localStorage' =
       PersistEdits(
         PersistVerifications(
           PersistColumns(localStorage,
                          InitialColumnSettings(localStorage, DefaultColumnConfigs)),
           InitialVerifications(localStorage)),
         InitialCellEdits(localStorage))
  /\ lastOp' = Op("otherSessionOpens", Empty, "", "")
  /\ UNCHANGED <<companies, loading, sortStatus, filters, columnConfigs,
                 columnSettings, aliased, verifications, cellEdits, download,
                 isAuthenticated, loginForm, authFetch, env, editors>>

\* handleEditSave of the second session adding its override to the map
\* found in storage
OtherSessionEditSaveMerging ==
  \E metricKey \in CellKeys, newValue \in EditTexts :
    LET companyName == RecordPool[1]["company_name"].str
    IN /\ other.open
       /\ LET next == handleValueChange(InitialCellEdits(localStorage), companyName, metricKey, newValue)
          IN /\ NumEntries(next) <= MaxEntries
             /\ other' = [other EXCEPT !.cellEdits = next]
             /\ localStorage' = PersistEdits(localStorage, next)
       /\ lastOp' = Op("otherSessionEditSave", companyName, metricKey, "")
       /\ UNCHANGED <<companies, loading, sortStatus, filters, columnConfigs,
                      columnSettings, aliased, verifications, cellEdits, download,
                      isAuthenticated, loginForm, authFetch, env, editors>>

\* handleEditSave in a cell of the second session, then its effect on
\* [cellEdits]
OtherSessionEditSave ==
  \E metricKey \in CellKeys, newValue \in EditTexts :
    LET companyName == RecordPool[1]["company_name"].str
    IN /\ other.open
       /\ LET next == handleValueChange(other.cellEdits, companyName, metricKey, newValue)
          IN /\ NumEntries(next) <= MaxEntries
             /\ other' = [other EXCEPT !.cellEdits = next]
             /\ localStorage' = PersistEdits(localStorage, next)
       /\ lastOp' = Op("otherSessionEditSave", companyName, metricKey, "")
       /\ UNCHANGED <<companies, loading, sortStatus, filters, columnConfigs,
                      columnSettings, aliased, verifications, cellEdits, download,
                      isAuthenticated, loginForm, authFetch, env, editors>>

\* handleVerificationToggle in a cell of the second session, then its
\* effect on [verifications]
OtherSessionVerificationToggle ==
  \E metricKey \in CellKeys :
    LET companyName == RecordPool[1]["company_name"].str
    IN /\ other.open
       /\ LET verified == ~(/\ HasEntry(other.verifications, companyName, metricKey)
                             /\ other.verifications[companyName][metricKey])
              next == handleVerificationChange(other.verifications, companyName, metricKey,
                                               verified)
          IN /\ NumEntries(next) <= MaxEntries
             /\ other' = [other EXCEPT !.verifications = next]
             /\ localStorage' = PersistVerifications(localStorage, next)
       /\ lastOp' = Op("otherSessionVerificationChange", companyName, metricKey, "")
       /\ UNCHANGED <<companies, loading, sortStatus, filters, columnConfigs,
                      columnSettings, aliased, verifications, cellEdits, download,
                      isAuthenticated, loginForm, authFetch, env, editors>>

----------------------------------------------------------------------------
(* Specifications                                                          *)

\* the load of one of the two tables, and the load of any file
DoLoadComplete == \E file \in {"one_row", "table"}, zone \in TimeZones : LoadComplete(file, zone)
DoLoadAny == \E file \in DOMAIN CsvFiles, zone \in TimeZones : LoadComplete(file, zone)
DoFilterChange == \E column \in FilterKeys, value \in FilterTexts : FilterChange(column, value)
DoSortStatusChange ==
  \E column \in SortKeys, direction \in {"asc", "desc"} : SortStatusChange(column, direction)
\* the cells acted on are those of the rows shown
DoVerificationToggle ==
  LET names == VisibleNames
  IN \E companyName \in names, metricKey \in CellKeys :
       VerificationToggle(companyName, metricKey)
DoEditSave ==
  LET names == VisibleNames
  IN \E companyName \in names, metricKey \in CellKeys, newValue \in EditTexts :
       EditSave(companyName, metricKey, newValue)
DoRevert ==
  LET names == VisibleNames
  IN \E companyName \in names, metricKey \in CellKeys : Revert(companyName, metricKey)
DoToggleColumn == \E key \in ToggleKeys : ToggleColumn(key)
DoDragEnd ==
  \E activeId \in DragKeys, overId \in DragKeys \cup {NoTarget} : DragEnd(activeId, overId)

\* every operation on the table of a signed-in user, across restarts
Spec ==
  Init /\ [][ \/ DoLoadAny
              \/ LoadFails
              \/ DoFilterChange
              \/ DoSortStatusChange
              \/ DoVerificationToggle
              \/ DoEditSave
              \/ DoRevert
              \/ ExportToCSV
              \/ DoToggleColumn
              \/ DoDragEnd
              \/ Restart ]_vars

\* loading, filtering and sorting
SpecView ==
  Init /\ [][ \/ DoLoadComplete
              \/ DoFilterChange
              \/ DoSortStatusChange ]_vars

\* loading, filtering, sorting, editing and exporting
SpecExport ==
  Init /\ [][ \/ DoLoadComplete
              \/ DoFilterChange
              \/ DoSortStatusChange
              \/ DoEditSave
              \/ DoRevert
              \/ ExportToCSV ]_vars

\* editing and verifying cells, across restarts
SpecOverlay ==
  Init /\ [][ \/ DoLoadComplete
              \/ DoVerificationToggle
              \/ DoEditSave
              \/ DoRevert
              \/ Restart ]_vars

\* loading any file, filtering and sorting, within one page load
SpecLoad ==
  Init /\ [][ \/ DoLoadAny
              \/ LoadFails
              \/ DoFilterChange
              \/ DoSortStatusChange ]_vars

\* the request for data.csv settles: fetch and response.text() resolve or
\* reject, and the callbacks registered on them run
RequestSettles == DoLoadAny \/ LoadFails
\* one page load in which the request for data.csv settles, while the user
\* sorts and exports the table
SpecLoadSettles ==
  Init /\ [][ \/ DoLoadAny
              \/ LoadFails
              \/ DoSortStatusChange
              \/ ExportToCSV ]_vars /\ WF_vars(RequestSettles)

\* hiding and moving columns, across restarts; the column controls are
\* rendered whether or not the records have arrived
SpecColumns ==
  Init /\ [][ \/ DoToggleColumn
              \/ DoDragEnd
              \/ Restart ]_vars

\* the credentials a user types, a blank among them, and the replies the
\* endpoint can give
DoLoginSubmit ==
  \E username \in {"admin", "dev", " "}, password \in {"password123", "pw", " "} :
    LoginSubmit(username, password)
DoLoginSettles ==
  \E reply \in Replies(loginForm.username, loginForm.password) : LoginSettles(reply)

\* signing in and out in any build, across restarts
SpecAuth ==
  InitApp /\ [][DoLoginSubmit \/ DoLoginSettles \/ Logout \/ Restart]_vars

\* two sessions on one storage, each editing and verifying the cells of
\* the one-row table (the second those of the first row)
SpecSessions ==
  Init /\ [][ \/ LoadComplete("one_row", "east")
              \/ DoEditSave
              \/ DoVerificationToggle
              \/ OtherSessionOpens
              \/ OtherSessionEditSave
              \/ OtherSessionVerificationToggle ]_vars

\* hiding and moving columns, signing out and signing in again with the
\* default credentials, within one page load
SpecRemount ==
  Init /\ [][ \/ DoToggleColumn
              \/ DoDragEnd
              \/ Logout
              \/ LoginSubmit("admin", "password123")
              \/ DoLoginSettles ]_vars

\* the editors of the cells of the one-row table: opening, typing, saving,
\* cancelling, and reverting a saved override
SpecEditor ==
  Init /\ [][ \/ LoadComplete("one_row", "east")
              \/ EditStart
              \/ EditChange
              \/ EditorSave
              \/ EditCancel
              \/ DoRevert ]_vars

----------------------------------------------------------------------------
(* Properties                                                              *)

\* the company names of the rows of the CSV files
AllNames == { RecordPool[i]["company_name"].str : i \in 1..Len(RecordPool) }

\* text occurs in s when case is ignored, character by character
OccursIgnoringCase(s, text) ==
  \E offset \in 0..(Len(s) - Len(text)) :
    \A n \in 1..Len(text) : LowerMap[s[offset + n]] = LowerMap[text[n]]

\* a filter text matches a field value: a string that holds it, or a list
\* with an element that holds it
FilterTextMatches(value, text) ==
  IF value.isArray
    THEN \E i \in 1..Len(value.items) : OccursIgnoringCase(value.items[i], text)
    ELSE OccursIgnoringCase(value.str, text)

\* every filter with a text matches the record
PassesEveryFilter(company) ==
  \A key \in CompanyKeys :
    filters[key] = Empty \/ FilterTextMatches(company[key], filters[key])

\* C1: a record of the record set is in the filtered sequence if and only
\* if every non-empty filter matches it, ignoring case, a list-valued field
\* matching when one of its elements holds the text
C1_FilteredIffEveryFilterMatches ==
  LET shown == VisibleCompanies
  IN \A i \in 1..Len(companies) :
       (\E j \in 1..Len(shown) : shown[j] = companies[i])
         <=> PassesEveryFilter(companies[i])

\* a string filter and a list filter are both set, in a case other than
\* the field's, and they keep some records and drop others
C1_Witness ==
  /\ filters["company_name"] # Empty
  /\ filters["est_annual_revenue_citations"] # Empty
  /\ Len(VisibleCompanies) > 0
  /\ Len(VisibleCompanies) < Len(companies)
  /\ \E i \in 1..Len(VisibleCompanies) :
       ~includes(VisibleCompanies[i]["company_name"].str, filters["company_name"])

\* the value of a column in a line of the file offered for download
Cell(file, line, column) == file.lines[line][HeaderIndex(file, column)]

\* C2: the exported file has one line per record of the filtered and sorted
\* sequence, in its order, and no line for a record the filters exclude
C2_ExportFollowsVisibleSequence ==
  download.offered =>
    LET shown == VisibleCompanies
    IN /\ Len(download.lines) = Len(shown)
       /\ \A i \in 1..Len(shown) :
            /\ Cell(download, i, "company_name") = shown[i]["company_name"].str
            /\ Cell(download, i, "state") = shown[i]["state"].str
       /\ \A i \in 1..Len(download.lines) :
            \A r \in 1..Len(companies) :
              (/\ companies[r]["company_name"].str = Cell(download, i, "company_name")
               /\ companies[r]["state"].str = Cell(download, i, "state"))
                => PassesEveryFilter(companies[r])

\* an export of a filtered, descending view with an override in place
C2_Witness ==
  /\ download.offered
  /\ Len(download.lines) >= 2
  /\ Len(download.lines) < Len(companies)
  /\ sortStatus.direction = "desc"
  /\ cellEdits # EmptyMap
  /\ Cell(download, 1, "state") # Cell(download, 2, "state")

\* the keys of the metric columns, whose cells the table lets the user edit
MetricKeys ==
  { DefaultColumnConfigs[i].key :
      i \in { j \in 1..Len(DefaultColumnConfigs) : DefaultColumnConfigs[j].type = "metric" } }

\* the column of the exported file that carries the value of a Company key,
\* "" when the row object has no member for it
ExportColumnFor(key) ==
  IF \E i \in 1..Len(ExportFields) :
       ExportFields[i].from = key /\ ExportFields[i].how = "getValue"
    THEN ExportFields[CHOOSE i \in 1..Len(ExportFields) :
                        ExportFields[i].from = key /\ ExportFields[i].how = "getValue"].column
    ELSE ""

\* C3: in the exported file the row of a record carries, for every metric
\* column that has an override for the record's company, the override, and
\* for every exported field without an override the source value
C3_ExportCarriesEveryOverride ==
  download.offered =>
    LET shown == VisibleCompanies
    IN \A i \in 1..Len(shown) :
         \A key \in MetricKeys :
           LET name == shown[i]["company_name"].str
               column == ExportColumnFor(key)
           IN /\ HasEntry(cellEdits, name, key) =>
                   /\ HeaderIndex(download, column) # 0
                   /\ Cell(download, i, column) = cellEdits[name][key]
              /\ (~HasEntry(cellEdits, name, key) /\ column # "") =>
                   Cell(download, i, column) = shown[i][key].str

\* C4: reverting an override makes every cell of that company and field
\* show the source value of its record again, and a company whose only
\* override it was is no longer a key of the override map
C4_RevertRestoresSourceValue ==
  [][lastOp'.op = "handleRevert" =>
       LET companyName == lastOp'.company
           metricKey == lastOp'.key
       IN /\ HasEntry(cellEdits, companyName, metricKey)
          /\ \A i \in 1..Len(companies') :
               companies'[i]["company_name"].str = companyName =>
                 currentValue(companies'[i], metricKey, cellEdits') =
                   companies'[i][metricKey].str
          /\ Cardinality(DOMAIN cellEdits[companyName]) = 1 =>
               companyName \notin DOMAIN cellEdits']_vars

\* the only override of a shown company has just been reverted
C4_Witness ==
  /\ lastOp.op = "handleRevert"
  /\ lastOp.company \notin DOMAIN cellEdits
  /\ \E i \in 1..Len(companies) :
       /\ companies[i]["company_name"].str = lastOp.company
       /\ currentValue(companies[i], lastOp.key, cellEdits) = companies[i][lastOp.key].str

\* no company of the override map has an empty field map
NoEmptyResidue == \A c \in DOMAIN cellEdits : DOMAIN cellEdits[c] # {}

\* C5: a revert removes the entry (company, field) and no other: every
\* other entry keeps its value, a company is a key exactly when it has an
\* override left, and no company ever maps to an empty field map
C5_RevertRemovesOnlyItsEntry ==
  /\ [][lastOp'.op = "handleRevert" =>
          LET companyName == lastOp'.company
              metricKey == lastOp'.key
          IN /\ ~HasEntry(cellEdits', companyName, metricKey)
             /\ \A c \in AllNames, k \in MetricKeys :
                  (c # companyName \/ k # metricKey) =>
                    /\ HasEntry(cellEdits', c, k) <=> HasEntry(cellEdits, c, k)
                    /\ HasEntry(cellEdits, c, k) => cellEdits'[c][k] = cellEdits[c][k]
             /\ \A c \in AllNames :
                  c \in DOMAIN cellEdits' <=> \E k \in MetricKeys : HasEntry(cellEdits', c, k)
             /\ DOMAIN cellEdits' \subseteq DOMAIN cellEdits]_vars
  /\ []NoEmptyResidue

\* a revert has left the company with another override
C5_Witness ==
  /\ lastOp.op = "handleRevert"
  /\ lastOp.company \in DOMAIN cellEdits
  /\ ~HasEntry(cellEdits, lastOp.company, lastOp.key)

\* the step turns the verification of a key off right after the step before
\* it has turned it on
OffRightAfterOn ==
  /\ lastOp.op = "handleVerificationChange"
  /\ lastOp.before # "true"
  /\ lastOp'.op = "handleVerificationChange"
  /\ lastOp'.company = lastOp.company
  /\ lastOp'.key = lastOp.key
  /\ lastOp'.before = "true"

\* C6 as stated: turning verification on and then off gives the key the
\* entry of the verification map it had before, none when it had none
C6_ToggleTwiceRestoresEntry ==
  [][OffRightAfterOn =>
       EntryState(verifications', lastOp.company, lastOp.key) = lastOp.before]_vars

\* C6 amended: turning verification on and then off gives the key the flag
\* the table read for it before (no entry reads as false), and a key that
\* had no entry then has the entry false
C6_ToggleTwiceRestoresFlag ==
  [][OffRightAfterOn =>
       /\ (EntryState(verifications', lastOp.company, lastOp.key) = "true")
            <=> (lastOp.before = "true")
       /\ lastOp.before = "absent" =>
            EntryState(verifications', lastOp.company, lastOp.key) = "false"]_vars

\* verification has just been turned off and the key holds the entry false
C6_Witness ==
  /\ lastOp.op = "handleVerificationChange"
  /\ lastOp.before = "true"
  /\ EntryState(verifications, lastOp.company, lastOp.key) = "false"

\* C7: a step that sets or reverts an override leaves the verification map
\* and its stored copy as they are, and a step that toggles a verification
\* leaves the override map and its stored copy as they are
C7_OverlayMapsIndependent ==
  [][/\ lastOp'.op \in {"handleValueChange", "handleRevert"} =>
          /\ verifications' = verifications
          /\ localStorage'["companyTableVerifications"] =
               localStorage["companyTableVerifications"]
     /\ lastOp'.op = "handleVerificationChange" =>
          /\ cellEdits' = cellEdits
          /\ localStorage'["companyTableEdits"] = localStorage["companyTableEdits"]]_vars

\* four cells show the four combinations of overridden and verified, and
\* the last step has set an override on a verified cell
C7_Witness ==
  /\ lastOp.op = "handleValueChange"
  /\ EntryState(verifications, lastOp.company, lastOp.key) = "true"
  /\ \E c1, c2 \in AllNames, k1, k2 \in CellKeys :
       /\ HasEntry(cellEdits, c1, k1) /\ EntryState(verifications, c1, k1) = "true"
       /\ HasEntry(cellEdits, c1, k2) /\ EntryState(verifications, c1, k2) # "true"
       /\ ~HasEntry(cellEdits, c2, k1) /\ EntryState(verifications, c2, k1) = "true"
       /\ ~HasEntry(cellEdits, c2, k2) /\ EntryState(verifications, c2, k2) # "true"

\* C8: after every operation the JSON under 'companyTableEdits' is the
\* override map and the JSON under 'companyTableVerifications' is the
\* verification map
C8_StorageHoldsBothMaps ==
  /\ localStorage["companyTableEdits"] # JNull
  /\ ParseEdits(localStorage["companyTableEdits"]) = cellEdits
  /\ localStorage["companyTableVerifications"] # JNull
  /\ ParseVerifications(localStorage["companyTableVerifications"]) = verifications

\* a revert has been written through while both maps hold entries
C8_Witness ==
  /\ lastOp.op = "handleRevert"
  /\ cellEdits # EmptyMap
  /\ verifications # EmptyMap
  /\ ParseEdits(localStorage["companyTableEdits"]) = cellEdits

\* C9: a restart and a load of the record set leave the override map and
\* the verification map as they were
C9_MapsSurviveRestartAndLoad ==
  [][lastOp'.op \in {"restart", "loadComplete"} =>
       /\ cellEdits' = cellEdits
       /\ verifications' = verifications]_vars

\* after a restart another CSV has been loaded, and the maps still hold the
\* entries of a company that is not in it
C9_Witness ==
  /\ lastOp.op = "loadComplete"
  /\ \E c \in DOMAIN cellEdits :
       \A i \in 1..Len(companies) : companies[i]["company_name"].str # c
  /\ \E c \in DOMAIN verifications :
       \A i \in 1..Len(companies) : companies[i]["company_name"].str # c

\* C10 as stated: after a restart the column list has the visibility flags
\* and the order it had before the restart
C10_ColumnsSurviveRestart ==
  [][lastOp'.op = "restart" => columnSettings' = columnSettings]_vars

\* C10 amended: the column list is written to storage on every change but
\* not read at startup: after a restart it is the default list, with every
\* column visible in the default order
C10_ColumnsDefaultAfterRestart ==
  /\ [][lastOp'.op = "restart" => columnSettings' = DefaultColumnConfigs]_vars
  /\ [](/\ localStorage["companyTableColumns"] # JNull
         /\ ParseColumns(localStorage["companyTableColumns"]) = columnSettings)

\* a restart has found hidden or moved columns and started with the default
C10_Witness ==
  /\ lastOp.op = "restart"
  /\ lastOp.before = "changed"
  /\ columnSettings = DefaultColumnConfigs

\* C11: whatever is stored under companyTableColumns at startup, the column
\* list always holds exactly the keys of the default list, each once: no
\* stored column is added, and no toggle or drag adds, removes or duplicates
\* a column
C11_ColumnKeysAreTheDefaultKeys ==
  /\ { columnSettings[i].key : i \in 1..Len(columnSettings) } = ColumnKeys
  /\ Len(columnSettings) = Cardinality(ColumnKeys)
  /\ \A i, j \in 1..Len(columnSettings) :
       columnSettings[i].key = columnSettings[j].key => i = j

\* the first mount in a browser that had stored a column unknown to the
\* default list: the list shown and the list stored again have none but the
\* default columns
C11_Witness ==
  /\ lastOp.op = "mount"
  /\ lastOp.before = "unknown_column"
  /\ findIndex(columnSettings, "legacy_rating") = 0
  /\ findIndex(ParseColumns(localStorage["companyTableColumns"]), "legacy_rating") = 0
  /\ findIndex(ParseColumns(StoredColumnSettings["unknown_column"]), "legacy_rating") = 1

\* the order indices of a column list
OrderIndices(cols) == { cols[i].order : i \in 1..Len(cols) }

\* C12: after any toggles and drags the order indices of all the columns,
\* shown and hidden together, are exactly 0..n-1: no gap and no duplicate
C12_OrderIndicesDense ==
  /\ OrderIndices(columnSettings) = 0..(Len(columnSettings) - 1)
  /\ \A i, j \in 1..Len(columnSettings) :
       columnSettings[i].order = columnSettings[j].order => i = j

\* a drag has moved a column while another column is hidden
C12_Witness ==
  /\ lastOp.op = "handleDragEnd"
  /\ \E i \in 1..Len(columnSettings) : ~columnSettings[i].visible
  /\ \E i \in 1..Len(columnSettings) :
       columnSettings[i].key # DefaultColumnConfigs[i].key

\* the step is a drop of column lastOp'.key onto another column
DroppedOnAnother ==
  /\ lastOp'.op = "handleDragEnd"
  /\ lastOp'.before # NoTarget
  /\ lastOp'.before # lastOp'.key

\* the step is a drop with no target or onto the dragged column itself
DroppedOnNothing ==
  /\ lastOp'.op = "handleDragEnd"
  /\ lastOp'.before = NoTarget \/ lastOp'.before = lastOp'.key

\* the order indices of a list number its positions from 0
NumberedByPosition(cols) == \A i \in 1..Len(cols) : cols[i].order = i - 1

\* C13 as stated: a drop of column A onto another column B exchanges the
\* positions of A and B, leaves every other column where it was and numbers
\* the list by position; a drop with no target or onto itself changes
\* nothing
C13_DragSwapsPositions ==
  /\ [][DroppedOnAnother =>
          LET a == findIndex(columnSettings, lastOp'.key)
              b == findIndex(columnSettings, lastOp'.before)
          IN /\ Len(columnSettings') = Len(columnSettings)
             /\ columnSettings'[a].key = columnSettings[b].key
             /\ columnSettings'[b].key = columnSettings[a].key
             /\ \A i \in 1..Len(columnSettings) \ {a, b} :
                  columnSettings'[i].key = columnSettings[i].key
             /\ NumberedByPosition(columnSettings')]_vars
  /\ [][DroppedOnNothing => columnSettings' = columnSettings]_vars

\* a column list without the column key, and without the order indices
Others(cols, key) ==
  LET rest == SelectSeq(cols, LAMBDA col : col.key # key)
  IN [i \in 1..Len(rest) |->
        [key |-> rest[i].key, type |-> rest[i].type, visible |-> rest[i].visible]]

\* C13 amended: a drop of column A onto another column B moves A to the
\* position B had; the other columns keep their sequence (those between
\* the two shift by one place towards the place A left), which exchanges A
\* and B only when they are adjacent; the list is numbered by position and
\* no visibility flag changes; a drop with no target or onto itself changes
\* nothing
C13_DragMovesColumn ==
  /\ [][DroppedOnAnother =>
          LET a == findIndex(columnSettings, lastOp'.key)
              b == findIndex(columnSettings, lastOp'.before)
          IN /\ Len(columnSettings') = Len(columnSettings)
             /\ columnSettings'[b].key = lastOp'.key
             /\ columnSettings'[b].visible = columnSettings[a].visible
             /\ Others(columnSettings', lastOp'.key) = Others(columnSettings, lastOp'.key)
             /\ (a - b \in {1, -1}) => columnSettings'[a].key = columnSettings[b].key
             /\ NumberedByPosition(columnSettings')]_vars
  /\ [][DroppedOnNothing =>
          /\ columnSettings' = columnSettings
          /\ localStorage' = localStorage]_vars

\* the first column has just been dropped on the third of the default list:
\* it is third now, and the second and third have moved up
C13_Witness ==
  /\ lastOp.op = "handleDragEnd"
  /\ lastOp.key = DefaultColumnConfigs[1].key
  /\ lastOp.before = DefaultColumnConfigs[3].key
  /\ columnSettings[1].key = DefaultColumnConfigs[2].key
  /\ columnSettings[2].key = DefaultColumnConfigs[3].key
  /\ columnSettings[3].key = DefaultColumnConfigs[1].key

\* C14: toggleColumnVisibility(key) flips the visibility flag of the column
\* with that key and nothing else: every column keeps its place and its
\* order index, and every other column its visibility
C14_ToggleFlipsOnlyItsFlag ==
  [][lastOp'.op = "toggleColumnVisibility" =>
       /\ Len(columnSettings') = Len(columnSettings)
       /\ \A i \in 1..Len(columnSettings) :
            /\ columnSettings'[i].key = columnSettings[i].key
            /\ columnSettings'[i].type = columnSettings[i].type
            /\ columnSettings'[i].order = columnSettings[i].order
            /\ columnSettings'[i].visible =
                 IF columnSettings[i].key = lastOp'.key
                   THEN ~columnSettings[i].visible
                   ELSE columnSettings[i].visible]_vars

\* a column has just been hidden in a list whose columns had been moved,
\* while another column stays hidden
C14_Witness ==
  /\ lastOp.op = "toggleColumnVisibility"
  /\ \E i \in 1..Len(columnSettings) :
       columnSettings[i].key = lastOp.key /\ ~columnSettings[i].visible
  /\ \E i \in 1..Len(columnSettings) :
       columnSettings[i].key # lastOp.key /\ ~columnSettings[i].visible
  /\ \E i \in 1..Len(columnSettings) :
       columnSettings[i].key # DefaultColumnConfigs[i].key

Reverse(list) == [i \in 1..Len(list) |-> list[Len(list) + 1 - i]]

\* the records shown when the active column is sorted in the given direction
ShownInDirection(direction) ==
  filteredAndSortedCompanies(companies, filters,
                             [sortStatus EXCEPT !.direction = direction])

\* no two of the records shown compare equal on the active sort column
NoTiesOnSortColumn ==
  LET shown == VisibleCompanies
  IN \A i, j \in 1..Len(shown) :
       i # j => localeCompare(SortText(shown[i][sortStatus.columnAccessor]),
                              SortText(shown[j][sortStatus.columnAccessor])) # 0

\* C15: for the records and filters of any state, when no two records shown
\* compare equal on the sort column, the sequence shown with direction
\* 'desc' is the reverse of the sequence shown with 'asc'; and the sort
\* state is one column with one direction
C15_DescendingIsReverseOfAscending ==
  /\ sortStatus.columnAccessor \in CompanyKeys
  /\ sortStatus.direction \in {"asc", "desc"}
  /\ DOMAIN sortStatus = {"columnAccessor", "direction"}
  /\ NoTiesOnSortColumn => ShownInDirection("desc") = Reverse(ShownInDirection("asc"))

\* three records that differ on the sort column are shown in descending
\* order, which is not the order of the file
C15_Witness ==
  /\ sortStatus.direction = "desc"
  /\ Len(VisibleCompanies) >= 3
  /\ NoTiesOnSortColumn
  /\ VisibleCompanies # companies
  /\ VisibleCompanies # Reverse(companies)

\* the metrics cell of a row is missing or is not JSON
MetricsUnreadable(csvRow) == JSONparse(csvRow["metrics"]) = Thrown

\* the record of a row whose metrics are set aside: its other columns
\* populate it and every metric field has its fallback value
RecordWithoutMetrics(csvRow, zone) ==
  transformCSVToCompany([csvRow EXCEPT !["metrics"] = JArr(<<>>)], zone)

\* C16: a row whose metrics column is missing or is not JSON does not abort
\* the load: the load gives one record per row, the record of such a row
\* has its company_name and state and its metric fields at the fallback
\* value, and every other row is transformed as usual
C16_UnreadableMetricsRowIsKept ==
  lastOp.op = "loadComplete" =>
    LET rows == CsvFiles[lastOp.key]
    IN /\ Len(companies) = Len(rows)
       /\ \A i \in 1..Len(rows) :
            companies[i] = IF MetricsUnreadable(rows[i])
                             THEN RecordWithoutMetrics(rows[i], lastOp.before)
                             ELSE transformCSVToCompany(rows[i], lastOp.before)

\* the metrics a record has a field for, with the field of their citations
ExpectedMetrics ==
  [ est_annual_revenue |-> "est_annual_revenue_citations",
    est_yoy_growth |-> "est_yoy_growth_citations",
    pe_backed |-> "pe_backed_citations",
    can_accommodate_allocation |-> "can_accommodate_allocation_citations",
    good_reputation |-> "good_reputation_citations" ]

\* the metric names of the metrics array of a row
MetricNames(csvRow) ==
  LET metrics == JSONparse(csvRow["metrics"])
  IN { ParseStr(Member(ParseObj(metrics[2][i]), "metric_name")) :
         i \in 1..Len(metrics[2]) }

\* a row without the elements of its metrics array that bear another name
\* than the expected ones
OnlyExpectedMetrics(csvRow) ==
  LET metrics == JSONparse(csvRow["metrics"])
      expected(element) ==
        ParseStr(Member(ParseObj(element), "metric_name")) \in DOMAIN ExpectedMetrics
  IN [csvRow EXCEPT !["metrics"] = JArr(SelectSeq(metrics[2], expected))]

\* C17: in the record of a row, the field of every expected metric that the
\* metrics array of the row lacks is 'Unknown' and its citation list is
\* empty, and the elements with any other metric_name have no effect on the
\* record
C17_AbsentMetricIsUnknown ==
  lastOp.op = "loadComplete" /\ ~AnyRowThrows(CsvFiles[lastOp.key]) =>
    LET rows == CsvFiles[lastOp.key]
    IN \A i \in 1..Len(rows) :
         /\ \A name \in DOMAIN ExpectedMetrics :
              name \notin MetricNames(rows[i]) =>
                /\ companies[i][name].str = Unknown
                /\ companies[i][ExpectedMetrics[name]].items = <<>>
         /\ companies[i] =
              transformCSVToCompany(OnlyExpectedMetrics(rows[i]), lastOp.before)

\* the short forms of the day a date text names, in the time zones
ShortForms(text) == { ShortDate(LocalDay(DateOf(text), zone)) : zone \in TimeZones }

\* C18: the last_interaction_date of a record is the text of the row as it
\* is when that text is not empty and cannot be read as a date, the short
\* form of the date when it can, and empty when the text is empty
C18_UnreadableDateIsKept ==
  lastOp.op = "loadComplete" /\ ~AnyRowThrows(CsvFiles[lastOp.key]) =>
    LET rows == CsvFiles[lastOp.key]
    IN \A i \in 1..Len(rows) :
         LET text == rows[i]["last_interaction_date"]
             shown == companies[i]["last_interaction_date"].str
         IN IF text = Empty THEN shown = Empty
            ELSE IF IsDateText(text) THEN shown \in ShortForms(text)
            ELSE shown = text

\* the load has failed: the request was rejected, the body had no rows, or
\* the transformation of a row threw
LoadHasFailed ==
  \/ lastOp.op = "loadFailed"
  \/ /\ lastOp.op = "loadComplete"
     /\ CsvFiles[lastOp.key] = <<>> \/ AnyRowThrows(CsvFiles[lastOp.key])

\* C19: when the request for data.csv settles, whether the file arrives, the
\* request fails, the body has no usable rows or the transformation of a
\* row throws, the table leaves the loading state; after a failure the
\* record set is empty; and loading, once false, stays false as long as
\* the table is mounted
C19_LoadingEnds ==
  /\ <>(~loading)
  /\ [](lastOp.op \in {"loadComplete", "loadFailed"} => ~loading)
  /\ [](LoadHasFailed => companies = <<>>)
  /\ [][~loading => ~loading']_vars

\* the transformation of a row has thrown: the table is empty and no longer
\* loading
C19_Witness ==
  /\ lastOp.op = "loadComplete"
  /\ AnyRowThrows(CsvFiles[lastOp.key])
  /\ ~loading
  /\ companies = <<>>

\* the exported file has a column for a member of a row object
HasColumn(file, column) == \E h \in 1..Len(file.header) : file.header[h] = column

\* the cell of a line of the file under a column of its header
CellUnder(file, line, column) ==
  file.lines[line][CHOOSE h \in 1..Len(file.header) : file.header[h] = column]

\* C20: the columns of the exported file are the union of the members of
\* all exported rows: a contact column that any exported record has is in
\* the header, whichever record comes first, with the record's cell under
\* it and a blank cell for the records that lack it; and the header has no
\* column that no row has
C20_ExportHeaderIsUnionOfRows ==
  download.offered =>
    LET rows == dataToExport(VisibleCompanies, cellEdits)
    IN /\ \A r \in 1..Len(rows) : \A m \in 1..Len(rows[r]) :
            LET column == rows[r][m].column
            IN /\ HasColumn(download, column)
               /\ \A q \in 1..Len(rows) :
                    CellUnder(download, q, column) = ValueOf(rows[q], column)
       /\ \A h \in 1..Len(download.header) :
            \E r \in 1..Len(rows) : \E m \in 1..Len(rows[r]) :
              rows[r][m].column = download.header[h]

\* the build is in local mode: VITE_AUTH_MODE is 'local' or not set
LocalMode == env.VITE_AUTH_MODE \in {"", "local"}

\* C21: in local mode validateCredentials resolves to true exactly when the
\* username is the configured development username and the password the
\* configured development password, 'admin' and 'password123' where none
\* is configured, and it sends no request, whatever is typed
C21_LocalModeComparesConfigured ==
  LocalMode =>
    /\ ~authFetch
    /\ lastOp.op = "validateCredentials" =>
         /\ ~lastOp.before.fetched
         /\ lastOp.before.resolved =
              (/\ lastOp.company = (IF env.VITE_DEV_USERNAME = "" THEN "admin"
                                    ELSE env.VITE_DEV_USERNAME)
               /\ lastOp.key = (IF env.VITE_DEV_PASSWORD = "" THEN "password123"
                                ELSE env.VITE_DEV_PASSWORD))

\* a development build with a configured user name and the default
\* password has accepted them
C21_Witness ==
  /\ LocalMode
  /\ env.VITE_DEV_USERNAME = "dev"
  /\ env.VITE_DEV_PASSWORD = ""
  /\ lastOp.op = "validateCredentials"
  /\ lastOp.company = "dev" /\ lastOp.key = "password123"
  /\ lastOp.before.resolved
  /\ isAuthenticated

\* a JSON value is an object whose member valid is the literal true
ValidExactlyTrue(body) ==
  /\ body # Thrown
  /\ body[1] = "obj"
  /\ \E i \in 1..Len(body[2]) : body[2][i] = <<"valid", JBool(TRUE)>>

\* C22: outside local mode validateCredentials resolves to true only when
\* the mode is 'api', the base URL is set, the request completes with a
\* success status and the body is an object whose valid is exactly true; a
\* network failure, another status, any other body, a missing base URL and
\* an unknown mode resolve to false, and the promise never rejects
C22_ApiModeFailsClosed ==
  /\ loginForm.error \in {"", "Invalid username or password"}
  /\ (~LocalMode /\ lastOp.op = "validateCredentials") =>
       /\ ~lastOp.before.rejected
       /\ lastOp.before.resolved =
            (/\ env.VITE_AUTH_MODE = "api"
             /\ env.VITE_API_BASE_URL # ""
             /\ lastOp.before.fetched
             /\ ~lastOp.before.reply.rejects
             /\ lastOp.before.reply.ok
             /\ ValidExactlyTrue(lastOp.before.reply.body))
       /\ lastOp.before.fetched =
            (env.VITE_AUTH_MODE = "api" /\ env.VITE_API_BASE_URL # "")

\* the Lambda has answered a request of an API build with valid: true
C22_Witness ==
  /\ env.VITE_AUTH_MODE = "api"
  /\ lastOp.op = "validateCredentials"
  /\ lastOp.before.fetched
  /\ lastOp.before.reply.ok
  /\ lastOp.before.reply.body =
       handler([username |-> "dev", password |-> "pw"],
               [available |-> TRUE, username |-> "dev", password |-> "pw"])
  /\ lastOp.before.resolved
  /\ isAuthenticated

\* C23: isAuthenticated becomes true only by a submission whose check
\* resolved to true, and false only by App.handleLogout; a check that
\* resolves to false leaves isAuthenticated false and the stored flag as it
\* was; and there is no lockout: whatever was submitted before, the form
\* takes a submission whenever no check is pending, and a pending check
\* settles by its own credentials alone
C23_TwoStateLoginGate ==
  /\ []((~isAuthenticated /\ ~loginForm.loading) =>
          \A username \in {"admin", "dev", " "}, password \in {"password123", "pw", " "} :
            ENABLED LoginSubmit(username, password))
  /\ [][ /\ (~isAuthenticated /\ isAuthenticated') =>
              (lastOp'.op = "validateCredentials" /\ lastOp'.before.resolved)
         /\ (isAuthenticated /\ ~isAuthenticated') => lastOp'.op = "handleLogout"
         /\ lastOp'.op = "validateCredentials" =>
              /\ isAuthenticated' = lastOp'.before.resolved
              /\ lastOp'.before.resolved =
                   validateCredentials(env, lastOp'.company, lastOp'.key,
                                       lastOp'.before.reply).resolves
              /\ ~lastOp'.before.resolved =>
                   /\ localStorage' = localStorage
                   /\ ~loginForm'.loading ]_vars

\* a check has just failed: nobody is signed in, nothing is stored, and the
\* form is ready for the next submission
C23_Witness ==
  /\ lastOp.op = "validateCredentials"
  /\ ~lastOp.before.resolved
  /\ ~isAuthenticated
  /\ localStorage["isAuthenticated"] = JNull
  /\ loginForm.error = "Invalid username or password"
  /\ ~loginForm.loading
  /\ ENABLED LoginSubmit("admin", "password123")

\* C24: whenever no handler is running, isAuthenticated is true exactly
\* when the item isAuthenticated of local storage is 'true'; a successful
\* login stores the flag and the user name, a reload of the page takes
\* isAuthenticated from the flag alone and leaves both items alone, however
\* many reloads came before, and sign-out removes both items
C24_AuthenticationFollowsStoredFlag ==
  /\ [](isAuthenticated <=> localStorage["isAuthenticated"] = <<"text", "true">>)
  /\ [][ /\ (lastOp'.op = "validateCredentials" /\ lastOp'.before.resolved) =>
              /\ localStorage'["isAuthenticated"] = <<"text", "true">>
              /\ localStorage'["username"] = <<"text", lastOp'.company>>
         /\ lastOp'.op = "handleLogout" =>
              /\ localStorage'["isAuthenticated"] = JNull
              /\ localStorage'["username"] = JNull
         /\ lastOp'.op = "restart" =>
              /\ isAuthenticated' = (localStorage["isAuthenticated"] = <<"text", "true">>)
              /\ localStorage'["isAuthenticated"] = localStorage["isAuthenticated"]
              /\ localStorage'["username"] = localStorage["username"] ]_vars

\* the page has been reloaded after a login and starts authenticated
C24_Witness ==
  /\ lastOp.op = "restart"
  /\ isAuthenticated
  /\ localStorage["isAuthenticated"] = <<"text", "true">>
  /\ localStorage["username"] = <<"text", "dev">>

\* C25: when the second of two sessions on one storage saves an edit,
\* storage holds its override map and nothing else: an override the first
\* session has saved, which the second neither held nor saves now, is no
\* longer stored, and the first session is told nothing, its own map
\* being as it was; the same holds of the verification maps
C25_LastSessionOverwritesStorage ==
  [][ /\ lastOp'.op = "otherSessionEditSave" =>
           /\ localStorage'["companyTableEdits"] = StringifyEdits(other'.cellEdits)
           /\ \A c \in DOMAIN cellEdits : \A k \in DOMAIN cellEdits[c] :
                HasEntry(InitialCellEdits(localStorage'), c, k) =>
                  \/ HasEntry(other.cellEdits, c, k)
                  \/ (c = lastOp'.company /\ k = lastOp'.key)
           /\ UNCHANGED <<cellEdits, verifications, companies, download, loginForm>>
      /\ lastOp'.op = "otherSessionVerificationChange" =>
           /\ localStorage'["companyTableVerifications"] =
                StringifyVerifications(other'.verifications)
           /\ \A c \in DOMAIN verifications : \A k \in DOMAIN verifications[c] :
                HasEntry(InitialVerifications(localStorage'), c, k) =>
                  \/ HasEntry(other.verifications, c, k)
                  \/ (c = lastOp'.company /\ k = lastOp'.key)
           /\ UNCHANGED <<cellEdits, verifications, companies, download, loginForm>> ]_vars

\* both sessions started with no override; the first saved one for the
\* revenue, then the second saved one for the date: storage holds the
\* second only
C25_Witness ==
  /\ other.open
  /\ lastOp.op = "otherSessionEditSave"
  /\ lastOp.key = "last_interaction_date"
  /\ HasEntry(cellEdits, lastOp.company, "est_annual_revenue")
  /\ ~HasEntry(other.cellEdits, lastOp.company, "est_annual_revenue")
  /\ HasEntry(InitialCellEdits(localStorage), lastOp.company, "last_interaction_date")
  /\ ~HasEntry(InitialCellEdits(localStorage), lastOp.company, "est_annual_revenue")

\* C26: setting or reverting an override leaves the source records as they
\* were, and with them the records shown and their order, which are computed
\* from the source values under the filters and the sort status
C26_OverlayLeavesRecordsAndView ==
  [][lastOp'.op \in {"handleValueChange", "handleRevert"} =>
       /\ companies' = companies
       /\ filteredAndSortedCompanies(companies', filters', sortStatus')
            = filteredAndSortedCompanies(companies, filters, sortStatus)]_vars

\* an override that differs from the source value was just saved in the
\* column the table is sorted by, with two rows or more shown under a filter
C26_Witness ==
  /\ lastOp.op = "handleValueChange"
  /\ sortStatus.columnAccessor = lastOp.key
  /\ Len(VisibleCompanies) >= 2
  /\ \E key \in FilterKeys : filters[key] # Empty
  /\ \E i \in 1..Len(VisibleCompanies) :
       /\ VisibleCompanies[i]["company_name"].str = lastOp.company
       /\ currentValue(VisibleCompanies[i], lastOp.key, cellEdits)
            # VisibleCompanies[i][lastOp.key].str

\* the metrics kept as text, with the field each fills
StringMetrics ==
  [ est_annual_revenue |-> "est_annual_revenue",
    est_yoy_growth |-> "est_yoy_growth",
    reputation |-> "good_reputation" ]

\* the grade cell of a row holds a JSON object {grade, summary, citations}
HasGradeObject(csvRow) ==
  LET gradeData == JSONparse(csvRow["investment_grade"])
  IN /\ gradeData # Thrown
     /\ gradeData[1] = "obj"
     /\ DOMAIN ParseObj(gradeData) = {"grade", "summary", "citations"}

\* the text of a metric value
TextOf(metric) ==
  CASE metric[1] = "str" -> metric[2]
    [] metric[1] = "num" -> NumberToString(metric[2])
    [] OTHER -> Empty

\* the elements of the metrics array of a row, parsed
MetricEntries(csvRow) ==
  LET metrics == JSONparse(csvRow["metrics"])
  IN [i \in 1..Len(metrics[2]) |-> ParseObj(metrics[2][i])]

\* C27 as stated: for a row with a metrics array and a grade object, the
\* grade, summary and citations of the record are those of the object, and
\* for every element of the array that names a text metric the field is the
\* metric value of that element and the citation field its citations
C27_FieldsEqualEntries ==
  lastOp.op = "loadComplete" /\ ~AnyRowThrows(CsvFiles[lastOp.key]) =>
    LET rows == CsvFiles[lastOp.key]
    IN \A i \in 1..Len(rows) :
         HasGradeObject(rows[i]) =>
           LET gradeData == ParseObj(JSONparse(rows[i]["investment_grade"]))
               entries == MetricEntries(rows[i])
           IN /\ companies[i]["investment_grade"].str = ParseStr(gradeData["grade"])
              /\ companies[i]["investment_grade_summary"].str
                   = ParseStr(gradeData["summary"])
              /\ companies[i]["investment_grade_citations"].items
                   = StringItems(gradeData["citations"])
              /\ \A n \in 1..Len(entries) : \A name \in DOMAIN StringMetrics :
                   entries[n]["metric_name"] = JStr(name) =>
                     /\ companies[i][StringMetrics[name]].str
                          = TextOf(entries[n]["metric"])
                     /\ companies[i][ExpectedMetrics[StringMetrics[name]]].items
                          = StringItems(entries[n]["citations"])

\* C27 amended: the grade and the metric fields are those texts when they
\* are not empty and 'Unknown' when they are, and of several elements with
\* one metric name the last gives the field and its citations
C27_FieldsEqualNonEmptyLastEntries ==
  lastOp.op = "loadComplete" /\ ~AnyRowThrows(CsvFiles[lastOp.key]) =>
    LET rows == CsvFiles[lastOp.key]
        OrUnknown(text) == IF text = Empty THEN Unknown ELSE text
    IN \A i \in 1..Len(rows) :
         HasGradeObject(rows[i]) =>
           LET gradeData == ParseObj(JSONparse(rows[i]["investment_grade"]))
               entries == MetricEntries(rows[i])
           IN /\ companies[i]["investment_grade"].str
                   = OrUnknown(ParseStr(gradeData["grade"]))
              /\ companies[i]["investment_grade_summary"].str
                   = ParseStr(gradeData["summary"])
              /\ companies[i]["investment_grade_citations"].items
                   = StringItems(gradeData["citations"])
              /\ \A n \in 1..Len(entries) : \A name \in DOMAIN StringMetrics :
                   /\ entries[n]["metric_name"] = JStr(name)
                   /\ \A later \in (n + 1)..Len(entries) :
                        entries[later]["metric_name"] # JStr(name)
                   => /\ companies[i][StringMetrics[name]].str
                           = OrUnknown(TextOf(entries[n]["metric"]))
                      /\ companies[i][ExpectedMetrics[StringMetrics[name]]].items
                           = StringItems(entries[n]["citations"])

\* the file with the grade objects was loaded: the revenue named twice has
\* the value of the later element, the empty growth and the empty grade are
\* 'Unknown', and the summary is that of the object
C27_Witness ==
  /\ lastOp.op = "loadComplete"
  /\ lastOp.key = "grades"
  /\ Len(companies) = Len(CsvFiles["grades"])
  /\ HasGradeObject(CsvFiles["grades"][1])
  /\ companies[1]["est_annual_revenue"].str = <<"2">>
  /\ companies[1]["est_yoy_growth"].str = Unknown
  /\ companies[1]["investment_grade"].str = Unknown
  /\ companies[1]["investment_grade_summary"].str = <<"o","k">>

\* the grade cell of a row holds a bare text, not JSON written out
HasBareGrade(csvRow) ==
  csvRow["investment_grade"] # Undefined /\ ~IsJsonTree(csvRow["investment_grade"])

\* the grade cell of a row holds a JSON object with no grade, or an empty one
HasGradelessObject(csvRow) ==
  LET gradeData == JSONparse(csvRow["investment_grade"])
  IN /\ IsJsonTree(csvRow["investment_grade"])
     /\ gradeData[1] = "obj"
     /\ ~Truthy(Member(ParseObj(gradeData), "grade"))

\* C28: the record of a row whose grade cell is a bare text has that text
\* as its investment_grade, an empty summary and no grade citations; and a
\* record has the grade 'Unknown' only when the cell is a JSON object
\* without a grade
C28_BareGradeIsKept ==
  lastOp.op = "loadComplete" /\ ~AnyRowThrows(CsvFiles[lastOp.key]) =>
    LET rows == CsvFiles[lastOp.key]
    IN \A i \in 1..Len(rows) :
         /\ HasBareGrade(rows[i]) =>
              /\ companies[i]["investment_grade"].str = rows[i]["investment_grade"]
              /\ companies[i]["investment_grade_summary"].str = Empty
              /\ companies[i]["investment_grade_citations"].items = <<>>
         /\ companies[i]["investment_grade"].str = Unknown =>
              HasGradelessObject(rows[i])

\* C29: no toggle and no drag changes the default column list, and a table
\* mounted after a sign-in starts with every column visible and with the
\* order indices of the default positions
C29_DefaultListNeverModified ==
  /\ [](columnConfigs = DefaultColumnConfigs)
  /\ [][lastOp'.op = "validateCredentials" /\ isAuthenticated' =>
          columnSettings' = DefaultColumnConfigs]_vars

\* C30: saving an open editor writes an override for its cell that holds
\* the draft, whatever the draft is, and the cell is reported as edited; an
\* override stays until its cell is reverted; cancelling an open editor
\* closes it and changes neither the overrides, nor storage, nor the value
\* any cell shows
C30_SaveAlwaysWritesOverride ==
  [][ /\ (lastOp'.op = "handleEditSave" =>
            /\ <<lastOp'.company, lastOp'.key>> \in DOMAIN editors
            /\ lastOp'.before = editors[<<lastOp'.company, lastOp'.key>>]
            /\ HasEntry(cellEdits', lastOp'.company, lastOp'.key)
            /\ cellEdits'[lastOp'.company][lastOp'.key] = lastOp'.before
            /\ \A i \in 1..Len(companies') :
                 companies'[i]["company_name"].str = lastOp'.company =>
                   /\ isEdited(companies'[i], lastOp'.key, cellEdits')
                   /\ currentValue(companies'[i], lastOp'.key, cellEdits')
                        = lastOp'.before)
      /\ (\A c \in DOMAIN cellEdits : \A k \in DOMAIN cellEdits[c] :
            \/ lastOp'.op = "handleRevert" /\ lastOp'.company = c /\ lastOp'.key = k
            \/ HasEntry(cellEdits', c, k))
      /\ (lastOp'.op = "handleEditCancel" =>
            /\ <<lastOp'.company, lastOp'.key>> \in DOMAIN editors
            /\ <<lastOp'.company, lastOp'.key>> \notin DOMAIN editors'
            /\ cellEdits' = cellEdits
            /\ localStorage' = localStorage
            /\ companies' = companies
            /\ \A i \in 1..Len(companies) : \A k \in CellKeys :
                 currentValue(companies'[i], k, cellEdits')
                   = currentValue(companies[i], k, cellEdits)) ]_vars

\* an editor was opened on a cell without an override and saved with its
\* draft untouched: the override holds the source value, and the cell is
\* reported as edited
C30_Witness ==
  /\ lastOp.op = "handleEditSave"
  /\ HasEntry(cellEdits, lastOp.company, lastOp.key)
  /\ \E i \in 1..Len(companies) :
       /\ companies[i]["company_name"].str = lastOp.company
       /\ cellEdits[lastOp.company][lastOp.key] = companies[i][lastOp.key].str
       /\ isEdited(companies[i], lastOp.key, cellEdits)

====
